---- MODULE Spec2Model ----
(***************************************************************************)
(* Model of the composition-and-export pipeline of the video meeting       *)
(* composer: ExportService (codec detection, export_video, the frame loop, *)
(* the encoder fallback chain), CompositionEngine (speaker positions,      *)
(* per-frame composition), VideoProcessor (timeline plan) and the server's *)
(* job worker (run_export / progress_cb).                                  *)
(*                                                                         *)
(* External collaborators (ffmpeg, OpenCV decoders, the file system) are   *)
(* inputs: every action draws their outcome with \E from the outcomes the  *)
(* code distinguishes.                                                     *)
(***************************************************************************)
EXTENDS Integers, Sequences, FiniteSets, TLC

\* ---------------------------------------------------------------- bounds
MaxFrames == 3      \* longest speaker stream, in frames
MaxDim == 4         \* largest width/height in the layout and resize sweeps
MaxSamples == 2     \* longest input buffer in the mix sweep, in samples
MaxRequests == 3    \* requests answered by the server (ServerSpec)
MaxPolls == 2       \* requests of one polling client (JobsSpec)

\* ------------------------------------------------------------- constants
None == "None"
HwCodecs == {"h264_nvenc", "h264_qsv", "h264_vaapi"}
\* GPUConfig.gpu_codec: Optional[Literal["h264_nvenc","h264_qsv","h264_vaapi"]]
GpuCodecLiteral == {"h264_nvenc", "h264_qsv", "h264_vaapi"}
SampleRate == 44100
PlateFloor == 50
PlateGap == 5
FixedMargin == 100
MaxOutputHeight == 8192
PaddingLimit == 50
PaddingFloor == 2

\* Exact rationals <<numerator, denominator>> (denominator > 0) stand for the
\* floating-point progress values.
Rat(n) == <<n, 1>>
RLeq(a, b) == a[1] * b[2] <= b[1] * a[2]
RLt(a, b) == a[1] * b[2] < b[1] * a[2]
REq(a, b) == a[1] * b[2] = b[1] * a[2]
RMin(a, b) == IF RLeq(a, b) THEN a ELSE b
RMax(a, b) == IF RLeq(b, a) THEN a ELSE b

\* ------------------------------------------------- configuration (inputs)
\* VideoCodecConfig: codec, preset, crf, bitrate (in kbit/s, rendered "<n>k").
VideoCodecs ==
    { [codec |-> "libx264", preset |-> "fast", crf |-> 23, bitrate_k |-> 5000],
      [codec |-> "libx265", preset |-> "slow", crf |-> 18, bitrate_k |-> 5000] }

NoPosition == [x |-> -1, y |-> -1]   \* speaker_config.position is None

\* Output size, speaker box, measured text box of the names and plate padding.
\* 1: the defaults; 2: the plate does not fit under the box; 3: a speaker box
\* wider than half of the output frame.
Layouts ==
    { [width |-> 1920, height |-> 1080, spk_w |-> 400, spk_h |-> 300,
       text_w |-> 80, text_h |-> 20, padding |-> 10, position |-> NoPosition],
      [width |-> 640, height |-> 360, spk_w |-> 300, spk_h |-> 340,
       text_w |-> 80, text_h |-> 20, padding |-> 10, position |-> NoPosition],
      [width |-> 1920, height |-> 1080, spk_w |-> 1000, spk_h |-> 300,
       text_w |-> 80, text_h |-> 20, padding |-> 10, position |-> NoPosition] }

RequestedFps == {24, 60}
StreamFps == {0, 24, 30}
FrameCounts == 0..MaxFrames
\* Frame sizes of the sources: an ordinary one and a very wide one.
SourceSizes == { [width |-> 640, height |-> 480], [width |-> 4000, height |-> 2] }

\* Output of `ffmpeg -encoders` as far as the code inspects it: the query
\* raises, or stdout lists some subset of the hardware encoders.
QueryOutcomes ==
    { [ok |-> FALSE, encoders |-> {}] } \cup
    { [ok |-> TRUE, encoders |-> s] : s \in SUBSET HwCodecs }

\* --------------------------------------------- ExportService.__init__
\* Assignment to gpu_config.gpu_codec under validate_assignment=True: a value
\* outside Optional[Literal[...]] raises ValidationError and leaves the field.
AssignGpuCodec(cur, v) ==
    IF v = None \/ v \in GpuCodecLiteral
    THEN [raised |-> FALSE, codec |-> v]
    ELSE [raised |-> TRUE, codec |-> cur]

\* Variant of SelectCodec that prefers the Intel encoder.
SelectQsvFirst(encoders) ==
    IF "h264_qsv" \in encoders THEN "h264_qsv"
    ELSE IF "h264_nvenc" \in encoders THEN "h264_nvenc"
    ELSE IF "h264_vaapi" \in encoders THEN "h264_vaapi"
    ELSE "libx264"

\* The if/elif chain of _detect_gpu_codec over the encoder listing.
SelectCodec(encoders) ==
    IF "h264_nvenc" \in encoders THEN "h264_nvenc"
    ELSE IF "h264_qsv" \in encoders THEN "h264_qsv"
    ELSE IF "h264_vaapi" \in encoders THEN "h264_vaapi"
    ELSE "libx264"

_detect_gpu_codec(use_gpu, cur, query) ==
    IF ~use_gpu
    THEN AssignGpuCodec(cur, "libx264")
    ELSE LET tried == IF query.ok
                      THEN AssignGpuCodec(cur, SelectCodec(query.encoders))
                      ELSE [raised |-> TRUE, codec |-> cur]
         IN  IF tried.raised
             THEN AssignGpuCodec(cur, "libx264")   \* the except handler
             ELSE tried

\* ------------------------------------------------ VideoProcessor (plan)
Min2(a, b) == IF a <= b THEN a ELSE b
Max2(a, b) == IF a >= b THEN a ELSE b

\* ------------------------------------------------ float arithmetic
\* The code computes with IEEE-754 doubles: a quotient w / h of two
\* integers is rounded to 53 significant bits, a product or quotient with
\* that value is rounded again, and int() truncates.  For integers below
\* 2^26 the truncated result is the floor of the exact value unless the
\* exact value is an integer n, and then it is n or n - 1, decided by the
\* rounding error of w / h, which the definitions below compute exactly.
RECURSIVE Pow2(_)
Pow2(k) == IF k <= 0 THEN 1 ELSE 2 * Pow2(k - 1)

\* floor(log2(p / q)) for positive p, q
RECURSIVE FloorLog2(_, _)
FloorLog2(p, q) ==
    IF p >= 2 * q THEN 1 + FloorLog2(p, 2 * q)
    ELSE IF p < q THEN FloorLog2(2 * p, q) - 1
    ELSE 0

\* The element of a one-element set: { e(x) : x \in {v} } computes v once.
Only(S) == CHOOSE x \in S : TRUE

\* 2^k mod h, by repeated squaring
RECURSIVE PowMod(_, _)
PowMod(k, h) ==
    IF k = 0 THEN 1 % h
    ELSE Only({ (half * half * (IF k % 2 = 1 THEN 2 ELSE 1)) % h :
                half \in {PowMod(k \div 2, h)} })

\* The double nearest to w / h is m * 2^(-k) with 2^52 <= m < 2^53.  The
\* result is m * h - w * 2^k: 0 when w / h is a double, positive when the
\* quotient was rounded up, negative when it was rounded down (ties go to
\* the even m).
QuotientError(w, h) ==
    Only({ Only({ IF r = 0 THEN 0
                  ELSE IF 2 * r > h THEN h - r
                  ELSE IF 2 * r = h /\ (w * PowMod(k, 2 * h)) % (2 * h) >= h THEN h - r
                  ELSE -r :
                  r \in {(w * PowMod(k, h)) % h} }) :
           k \in {52 - FloorLog2(w, h)} })

\* The double product t * fl(w / h), whose exact value would be the integer
\* n, is at least n: d is QuotientError(w, h), E and F are the binary
\* exponents of n and of w / h.
ProductReaches(n, t, d, h, E, F) ==
    \/ d >= 0
    \/ (IF n = Pow2(E) THEN 4 ELSE 2) * t * (-d) <= h * Pow2(E - F)

\* The double quotient t / fl(w / h), whose exact value would be the integer
\* n, is at least n.
QuotientReaches(n, d, w, E, F) ==
    \/ d <= 0
    \/ (IF n = Pow2(E) THEN 4 ELSE 2) * n * d * Pow2(F - E) <= w * Pow2(E - F)

\* int(t * (w / h)) for integers t >= 0, w >= 0, h >= 1
TruncProduct(t, w, h) ==
    IF t = 0 \/ w = 0 THEN 0
    ELSE IF (t * w) % h # 0 THEN (t * w) \div h
    ELSE Only({ IF ProductReaches(n, t, d, h, E, F) THEN n ELSE n - 1 :
                n \in {(t * w) \div h}, d \in {QuotientError(w, h)},
                E \in {FloorLog2((t * w) \div h, 1)}, F \in {FloorLog2(w, h)} })

\* int(t / (w / h)) for integers t >= 0, w >= 1, h >= 1
TruncQuotient(t, w, h) ==
    IF t = 0 THEN 0
    ELSE IF (t * h) % w # 0 THEN (t * h) \div w
    ELSE Only({ IF QuotientReaches(n, d, w, E, F) THEN n ELSE n - 1 :
                n \in {(t * h) \div w}, d \in {QuotientError(w, h)},
                E \in {FloorLog2((t * h) \div w, 1)}, F \in {FloorLog2(w, h)} })

\* Variant of calculate_output_fps that ignores export_config.fps.
OutputFpsIgnoringRequest(fps1, fps2, requested) == Min2(fps1, fps2)

calculate_output_fps(fps1, fps2, requested) == Min2(Min2(fps1, fps2), requested)

calculate_max_frames(frame_count1, frame_count2) == Max2(frame_count1, frame_count2)

\* ------------------------------------------- CompositionEngine (layout)

\* Variant of _calculate_speaker_positions that centers both boxes in the
\* whole frame instead of one half each.
CenterInWholeFrame(output_w, output_h, speaker_w, speaker_h, position) ==
    LET center_y == (output_h - speaker_h) \div 2
        x == (output_w - speaker_w) \div 2
    IN  [s1 |-> [x |-> x, y |-> center_y], s2 |-> [x |-> x, y |-> center_y]]

_calculate_speaker_positions(output_w, output_h, speaker_w, speaker_h, position) ==
    LET half_width == output_w \div 2
    IN  IF position # NoPosition
        THEN [s1 |-> [x |-> position.x, y |-> position.y],
              s2 |-> [x |-> half_width + FixedMargin, y |-> position.y]]
        ELSE LET center_y == (output_h - speaker_h) \div 2
                 speaker1_x == (half_width - speaker_w) \div 2
                 speaker2_x == half_width + (half_width - speaker_w) \div 2
             IN  [s1 |-> [x |-> speaker1_x, y |-> center_y],
                  s2 |-> [x |-> speaker2_x, y |-> center_y]]

\* Length of the numpy basic slice a[start:stop] on an axis of length n.
SliceBound(i, n) == IF i < 0 THEN Max2(i + n, 0) ELSE Min2(i, n)
SliceLen(start, stop, n) == Max2(SliceBound(stop, n) - SliceBound(start, n), 0)

\* ImageProcessor.create_name_plate: plate size from the measured text box.
create_name_plate(text_w, text_h, padding, min_width) ==
    [w |-> Max2(text_w + padding * 2, min_width),
     h |-> Max2(text_h + padding * 2, PlateFloor)]

\* Variant of overlay_image that checks the bottom edge only.
OverlayHeightOnly(bg_w, bg_h, ov_w, ov_h, x, y) ==
    ~(y + ov_h > bg_h)

\* ImageProcessor.overlay_image bounds check: TRUE when the overlay is blended.
overlay_image(bg_w, bg_h, ov_w, ov_h, x, y) ==
    ~(y + ov_h > bg_h \/ x + ov_w > bg_w)

NoRect == [x |-> 0, y |-> 0, w |-> 0, h |-> 0]

\* CompositionEngine._add_name_plate: whether a plate is composited, and where.
_add_name_plate(lay, speaker_x, speaker_y) ==
    LET plate == create_name_plate(lay.text_w, lay.text_h, lay.padding, lay.spk_w)
        plate_y == speaker_y + lay.spk_h + PlateGap
        plate_x == speaker_x + (lay.spk_w - plate.w) \div 2
        drawn == /\ plate_y + plate.h <= lay.height
                 /\ plate_x >= 0 /\ plate_y >= 0
                 /\ overlay_image(lay.width, lay.height, plate.w, plate.h, plate_x, plate_y)
    IN  [drawn |-> drawn,
         rect |-> IF drawn THEN [x |-> plate_x, y |-> plate_y, w |-> plate.w, h |-> plate.h]
                  ELSE NoRect]

\* A frame is the index of the decoded source frame; NoFrame stands for None.
NoFrame == -1

\* VideoProcessor.resize_with_aspect_ratio for a w x h image and a
\* target_width x target_height canvas.  aspect_ratio = w / h is a double;
\* the branch test target_width / target_height > aspect_ratio compares two
\* correctly rounded quotients of small integers, which orders them as the
\* exact quotients; int(target_height * aspect_ratio) and
\* int(target_width / aspect_ratio) truncate doubles.  cv2.resize raises for a
\* scaled size with a zero dimension; otherwise the scaled image is pasted at
\* the centering offsets into a zero canvas of the target size.
resize_with_aspect_ratio(w, h, target_width, target_height) ==
    LET fill_height == target_width * h > w * target_height
        paste(new_width, new_height) ==
            LET y_offset == (target_height - new_height) \div 2
                x_offset == (target_width - new_width) \div 2
                rows == SliceLen(y_offset, y_offset + new_height, target_height)
                cols == SliceLen(x_offset, x_offset + new_width, target_width)
            IN  [raised |-> \/ new_width <= 0 \/ new_height <= 0
                            \/ rows # new_height \/ cols # new_width,
                 new_width |-> new_width, new_height |-> new_height,
                 x_offset |-> x_offset, y_offset |-> y_offset,
                 width |-> target_width, height |-> target_height]
    IN  Only({ paste(new_width, new_height) :
               new_width \in {IF fill_height THEN TruncProduct(target_height, w, h)
                              ELSE target_width},
               new_height \in {IF fill_height THEN target_height
                               ELSE TruncQuotient(target_width, w, h)} })

\* CompositionEngine._add_speaker_to_frame for a present speaker frame src.
\* The ROI assignment raises ValueError when the sliced region and the
\* resized frame cannot be broadcast; a box of one row or one column is
\* broadcast into an empty region, which pastes nothing.
\* size is the shape of the speaker frame; the resize comes first.
_add_speaker_to_frame(lay, src, size, pos, name) ==
    IF resize_with_aspect_ratio(size.width, size.height, lay.spk_w, lay.spk_h).raised
    THEN [raised |-> TRUE, box |-> NoFrame, plate |-> FALSE, plate_at |-> NoRect]
    ELSE IF pos.y + lay.spk_h <= lay.height /\ pos.x + lay.spk_w <= lay.width
    THEN LET rows == SliceLen(pos.y, pos.y + lay.spk_h, lay.height)
             cols == SliceLen(pos.x, pos.x + lay.spk_w, lay.width)
         IN  IF (rows = lay.spk_h \/ lay.spk_h = 1) /\ (cols = lay.spk_w \/ lay.spk_w = 1)
             THEN [raised |-> FALSE,
                   box |-> IF rows > 0 /\ cols > 0 THEN src ELSE NoFrame,
                   plate |-> (name # "" /\ _add_name_plate(lay, pos.x, pos.y).drawn),
                   plate_at |-> IF name # "" THEN _add_name_plate(lay, pos.x, pos.y).rect
                                ELSE NoRect]
             ELSE [raised |-> TRUE, box |-> NoFrame, plate |-> FALSE, plate_at |-> NoRect]
    ELSE [raised |-> FALSE, box |-> NoFrame, plate |-> FALSE, plate_at |-> NoRect]

\* Variant of Absent: a missing speaker frame makes the composition raise.
AbsentRaises == [raised |-> TRUE, box |-> NoFrame, plate |-> FALSE, plate_at |-> NoRect]

\* What compose_frame adds for a speaker whose frame is None: nothing.
Absent == [raised |-> FALSE, box |-> NoFrame, plate |-> FALSE, plate_at |-> NoRect]

\* CompositionEngine.compose_frame: frame1/frame2 are NoFrame (None) or the
\* index of the decoded source frame; idx is the output frame index.
compose_frame(lay, frame1, frame2, size1, size2, name1, name2, idx) ==
    LET pos == _calculate_speaker_positions(lay.width, lay.height, lay.spk_w, lay.spk_h, lay.position)
        a1 == IF frame1 # NoFrame THEN _add_speaker_to_frame(lay, frame1, size1, pos.s1, name1) ELSE Absent
        a2 == IF frame2 # NoFrame /\ ~a1.raised
              THEN _add_speaker_to_frame(lay, frame2, size2, pos.s2, name2) ELSE Absent
    IN  [raised |-> a1.raised \/ a2.raised, idx |-> idx,
         box1 |-> a1.box, plate1 |-> a1.plate, plate1_at |-> a1.plate_at,
         box2 |-> a2.box, plate2 |-> a2.plate, plate2_at |-> a2.plate_at]

\* --------------------------------------------- cv2.VideoCapture.read
\* Variant of cap_read that restarts an exhausted stream.
ReadLooping(pos, frame_count) ==
    IF frame_count > 0 THEN pos % frame_count ELSE NoFrame

\* cap.read() at decoder position pos of a stream of frame_count frames:
\* the index of the decoded frame, or NoFrame once the stream is exhausted
\* (the decoder delivers exactly the frames CAP_PROP_FRAME_COUNT reports).
cap_read(pos, frame_count) ==
    IF pos < frame_count THEN pos ELSE NoFrame

\* ------------------------------------------------------ encoder commands
TempVideo == "temp_video.mp4"
TempAudio == "temp_audio.wav"
OutputPath == "meeting_output.mp4"

Kbit(n) == ToString(n) \o "k"

\* ExportService._get_video_codec_params
_get_video_codec_params(gpu_codec, vc) ==
    IF gpu_codec = "h264_nvenc"
    THEN << "-c:v", "h264_nvenc", "-preset", "fast", "-rc", "vbr",
            "-cq", ToString(vc.crf), "-b:v", Kbit(vc.bitrate_k),
            "-maxrate", Kbit(vc.bitrate_k), "-bufsize", Kbit(vc.bitrate_k * 2) >>
    ELSE IF gpu_codec = "h264_qsv"
    THEN << "-c:v", "h264_qsv", "-preset", "fast",
            "-global_quality", ToString(vc.crf), "-b:v", Kbit(vc.bitrate_k) >>
    ELSE IF gpu_codec = "h264_vaapi"
    THEN << "-c:v", "h264_vaapi", "-qp", ToString(vc.crf), "-b:v", Kbit(vc.bitrate_k) >>
    ELSE << "-c:v", vc.codec, "-preset", vc.preset,
            "-crf", ToString(vc.crf), "-b:v", Kbit(vc.bitrate_k) >>

\* Variant of CpuParams with the hardware paths' hard-coded preset.
CpuParamsFastPreset(vc) ==
    << "-c:v", "libx264", "-preset", "fast",
       "-crf", ToString(vc.crf), "-b:v", Kbit(vc.bitrate_k) >>

\* The video flags of the CPU fallback command (cpu_cmd).
CpuParams(vc) ==
    << "-c:v", "libx264", "-preset", vc.preset,
       "-crf", ToString(vc.crf), "-b:v", Kbit(vc.bitrate_k) >>

AudioTail ==
    << "-c:a", "aac", "-b:a", "128k", "-shortest",
       "-movflags", "+faststart", "-y", OutputPath >>
VideoTail == << "-movflags", "+faststart", "-y", OutputPath >>

Inputs(with_audio) ==
    IF with_audio THEN << "ffmpeg", "-i", TempVideo, "-i", TempAudio >>
    ELSE << "ffmpeg", "-i", TempVideo >>

gpu_cmd(with_audio, gpu_codec, vc) ==
    Inputs(with_audio) \o _get_video_codec_params(gpu_codec, vc)
        \o (IF with_audio THEN AudioTail ELSE VideoTail)

cpu_cmd(with_audio, vc) ==
    Inputs(with_audio) \o CpuParams(vc)
        \o (IF with_audio THEN AudioTail ELSE VideoTail)

\* =================================================================== state
VARIABLES
    pc,            \* position of the request / worker
    cfg,           \* ExportConfig + SpeakerConfig as supplied by the caller
    query,         \* what `ffmpeg -encoders` answers on this host
    gpu_codec,     \* export_config.gpu_config.gpu_codec
    job,           \* jobs[job_id]: status and progress
    progress_log,  \* every value passed to progress_cb, in order
    info1, info2,  \* get_video_info of the two sources
    cap1, cap2,    \* decoders: opened / released, read position, what every
                   \* read() returned so far
    output_fps, max_frames,
    audio,         \* extracted tracks and the mix
    frames_out,    \* frames appended to the intermediate video
    files,         \* temp video, temp audio, file at the output path
    invocations,   \* encoder invocations of the mux phase, in order
    mux_result,    \* return value of _combine_video_audio
    result,        \* return value of export_video
    positions,     \* last result of _calculate_speaker_positions
    background,    \* what load_image made of the background path
    jobs,          \* the registry `jobs`: entry of job id i at index i
    jobs_lock,     \* holder of jobs_lock
    threads,       \* position and locals of every worker and polling thread
    access,        \* the last access to an entry of the registry
    responses,     \* requests answered by the server, with their responses
    handlers,      \* export requests whose handler is suspended at an await
    calc           \* arguments and result of a function applied on its own

vars == << pc, cfg, query, gpu_codec, job, progress_log, info1, info2, cap1, cap2,
           output_fps, max_frames, audio, frames_out, files, invocations,
           mux_result, result, positions, background,
           jobs, jobs_lock, threads, access, responses, handlers, calc >>

\* The state of the export pipeline but its position, and the rest.
pipeline == << cfg, query, gpu_codec, job, progress_log, info1, info2, cap1, cap2,
               output_fps, max_frames, audio, frames_out, files, invocations,
               mux_result, result, positions, background >>
aux == << calc, jobs, jobs_lock, threads, access, responses, handlers >>

NoCalc == [fn |-> "none"]
NoHolder == "free"
NoAccess == [thread |-> "none", job |-> 0, kind |-> "none", holder |-> NoHolder]

NoInfo == [fps |-> 0, frame_count |-> 0, width |-> 0, height |-> 0]
ClosedCap == [opened |-> FALSE, released |-> FALSE, pos |-> 0, reads |-> << >>]
NoPositions == [s1 |-> [x |-> 0, y |-> 0], s2 |-> [x |-> 0, y |-> 0]]

InitRest ==
    /\ gpu_codec = None
    /\ job = [status |-> "none", progress |-> Rat(0)]
    /\ progress_log = << >>
    /\ info1 = NoInfo /\ info2 = NoInfo
    /\ cap1 = ClosedCap /\ cap2 = ClosedCap
    /\ output_fps = 0 /\ max_frames = 0
    /\ audio = [a1 |-> FALSE, a2 |-> FALSE, mixed |-> FALSE, length |-> 0,
                raised |-> FALSE]
    /\ frames_out = << >>
    /\ files = [temp_video |-> FALSE, temp_audio |-> FALSE, extract_temp |-> FALSE,
                output |-> "absent"]
    /\ invocations = << >>
    /\ mux_result = "pending"
    /\ result = "pending"
    /\ positions = NoPositions
    /\ background = "unread"

InitServer ==
    /\ jobs = << >>
    /\ jobs_lock = NoHolder
    /\ threads = << >>
    /\ access = NoAccess
    /\ responses = << >>
    /\ handlers = << >>

InitAux == calc = NoCalc /\ InitServer

Init ==
    /\ pc = "construct"
    /\ cfg \in [use_gpu : BOOLEAN, fps : RequestedFps, vc : VideoCodecs,
                lay : Layouts, name1 : {"Alice"}, name2 : {"Bob"}]
    /\ query \in QueryOutcomes
    /\ InitRest
    /\ InitAux

\* ------------------------------------------------------------ server glue
\* ExportService.__init__ (server.py:274): codec detection; a raise leaves
\* the request without a job.
Construct ==
    /\ pc = "construct"
    /\ LET r == _detect_gpu_codec(cfg.use_gpu, gpu_codec, query)
       IN  /\ gpu_codec' = r.codec
           /\ pc' = IF r.raised THEN "construct_failed" ELSE "create_job"
    /\ UNCHANGED << aux, background, cfg, query, job, progress_log, info1, info2, cap1, cap2,
                    output_fps, max_frames, audio, frames_out, files,
                    invocations, mux_result, result, positions >>

\* server.py:276-277
CreateJob ==
    /\ pc = "create_job"
    /\ job' = [status |-> "running", progress |-> Rat(0)]
    /\ pc' = "start"
    /\ UNCHANGED << aux, background, cfg, query, gpu_codec, progress_log, info1, info2, cap1, cap2,
                    output_fps, max_frames, audio, frames_out, files,
                    invocations, mux_result, result, positions >>

\* run_export.progress_cb: the value stored in the job entry.
Clamp(p) == RMax(Rat(0), RMin(Rat(100), p))

progress_cb(p) ==
    /\ progress_log' = Append(progress_log, p)
    /\ job' = [job EXCEPT !.progress = Clamp(p)]

\* `return False` of export_video (also through its except clause).
ReturnFalse ==
    /\ pc' = "returned"
    /\ result' = "False"

\* ------------------------------------------------ ExportService.export_video
\* Variant of load_image that hands out a blank raster for an unreadable file.
LoadImageBlank(readable) == "image"

\* ImageProcessor.load_image: the raster, or None when cv2.imread fails.
load_image(readable) == IF readable THEN "image" ELSE None

\* VideoProcessor.load_video: raises ValueError when the capture is not opened.
load_video(opens) == [raised |-> ~opens, opened |-> opens]

\* export_video lines 60-62: the first checkpoint; progress_cb takes and
\* releases jobs_lock before anything else happens.
ExportStart ==
    /\ pc = "start"
    /\ progress_cb(Rat(2))
    /\ pc' = "background"
    /\ UNCHANGED << aux, background, cfg, query, gpu_codec, info1, info2, cap1, cap2,
                    output_fps, max_frames, audio, frames_out, files,
                    invocations, mux_result, result, positions >>

\* export_video lines 63-68: the background image.
LoadBackground ==
    /\ pc = "background"
    /\ \E readable \in BOOLEAN :
          /\ background' = IF readable THEN "ok" ELSE "unreadable"
          /\ IF load_image(readable) = None
             THEN ReturnFalse
             ELSE pc' = "probe" /\ result' = result
    /\ UNCHANGED << aux, cfg, query, gpu_codec, job, progress_log, info1, info2,
                    cap1, cap2, output_fps, max_frames, audio, frames_out, files,
                    invocations, mux_result, positions >>

\* get_video_info: fps, frame_count, width, height of an opened source.
StreamInfos ==
    { [fps |-> f, frame_count |-> n, width |-> s.width, height |-> s.height] :
         f \in StreamFps, n \in FrameCounts, s \in SourceSizes }

\* export_video lines 71-93: open both sources (load_video raises ValueError
\* on a source that does not open), read their info, compute the plan
\* (max_frames / output_fps raises ZeroDivisionError for fps 0).
Probe ==
    /\ pc = "probe"
    /\ \E open1 \in BOOLEAN, open2 \in BOOLEAN, i1 \in StreamInfos, i2 \in StreamInfos :
          /\ (~open1 \/ ~open2) => (i1 = CHOOSE i \in StreamInfos : TRUE)
          /\ (~open1 \/ ~open2) => (i2 = i1)
          /\ ~open1 => open2
          /\ cap1' = [cap1 EXCEPT !.opened = load_video(open1).opened]
          /\ cap2' = [cap2 EXCEPT !.opened =
                                ~load_video(open1).raised /\ load_video(open2).opened]
          /\ IF ~load_video(open1).raised /\ ~load_video(open2).raised
             THEN /\ info1' = i1 /\ info2' = i2
                  /\ output_fps' = calculate_output_fps(i1.fps, i2.fps, cfg.fps)
                  /\ max_frames' = calculate_max_frames(i1.frame_count, i2.frame_count)
                  /\ IF output_fps' = 0
                     THEN ReturnFalse
                     ELSE pc' = "audio" /\ result' = result
             ELSE /\ UNCHANGED << info1, info2, output_fps, max_frames >>
                  /\ ReturnFalse
    /\ UNCHANGED << aux, background, cfg, query, gpu_codec, job, progress_log, audio, frames_out,
                    files, invocations, mux_result, positions >>

\* int(max_duration * sr) with max_duration = max_frames / output_fps, a
\* double
TargetLength(frames, fps) == TruncProduct(SampleRate, frames, fps)

\* AudioProcessor.mix_audio, as far as export_video depends on it: None when
\* both tracks are absent; np.max over an empty buffer raises ValueError.
mix_audio(a1, a2, target_length) ==
    IF ~a1 /\ ~a2 THEN "None"
    ELSE IF target_length <= 0 THEN "raise"
    ELSE "mixed"

\* What can happen to one extract_audio call: the track is decoded and
\* loaded; the source has no audio track or the decoder stops part-way (both
\* a nonzero exit, CalledProcessError); the decoder cannot be launched
\* (FileNotFoundError, or another OSError such as PermissionError for a
\* decoder that is not executable); the decoder exits 0 but librosa.load
\* raises on the decoded file.
ExtractOutcomes ==
    {"ok", "no_track", "decoder_error", "tool_missing", "not_executable", "load_error"}

\* AudioProcessor.extract_audio: the except clause turns CalledProcessError
\* and FileNotFoundError into (None, None); any other exception (of
\* subprocess.run or of librosa.load) leaves the function.  The temporary wav
\* exists once the decoder has run and is removed on the success path only.
extract_audio(outcome) ==
    CASE outcome = "ok" ->
            [raised |-> FALSE, audio |-> TRUE, temp_left |-> FALSE]
      [] outcome \in {"no_track", "tool_missing"} ->
            [raised |-> FALSE, audio |-> FALSE, temp_left |-> FALSE]
      [] outcome = "decoder_error" ->
            [raised |-> FALSE, audio |-> FALSE, temp_left |-> TRUE]
      [] outcome = "not_executable" ->
            [raised |-> TRUE, audio |-> FALSE, temp_left |-> FALSE]
      [] outcome = "load_error" ->
            [raised |-> TRUE, audio |-> FALSE, temp_left |-> TRUE]

\* export_video lines 95-100: extract both tracks (each may come back
\* None), then the second checkpoint, whose progress_cb takes and releases
\* jobs_lock.  An exception of extract_audio reaches the except clause of
\* export_video.
AudioPhase ==
    /\ pc = "audio"
    /\ \E o1 \in ExtractOutcomes, o2 \in ExtractOutcomes :
          LET e1 == extract_audio(o1)
              e2 == extract_audio(o2)
              a1 == e1.audio
              a2 == ~e1.raised /\ e2.audio
          IN  /\ files' = [files EXCEPT !.extract_temp =
                                e1.temp_left \/ (~e1.raised /\ e2.temp_left)]
              /\ IF e1.raised \/ e2.raised
                 THEN /\ audio' = [a1 |-> a1, a2 |-> a2, mixed |-> FALSE,
                                   length |-> 0, raised |-> TRUE]
                      /\ ReturnFalse
                      /\ UNCHANGED << job, progress_log >>
                 ELSE /\ progress_cb(Rat(10))
                      /\ audio' = [a1 |-> a1, a2 |-> a2, mixed |-> FALSE,
                                   length |-> 0, raised |-> FALSE]
                      /\ pc' = "mix" /\ result' = result
    /\ UNCHANGED << aux, background, cfg, query, gpu_codec, info1, info2, cap1, cap2,
                    output_fps, max_frames, frames_out,
                    invocations, mux_result, positions >>

\* export_video lines 102-108: mix the tracks when there is one.  An
\* exception of mix_audio reaches the except clause of export_video.
MixPhase ==
    /\ pc = "mix"
    /\ LET target_length == TargetLength(max_frames, output_fps)
           m == IF audio.a1 \/ audio.a2
                THEN mix_audio(audio.a1, audio.a2, target_length) ELSE "None"
       IN  /\ audio' = [audio EXCEPT !.mixed = (m = "mixed"),
                                     !.length = IF m = "mixed" THEN target_length ELSE 0]
           /\ IF m = "raise"
              THEN ReturnFalse
              ELSE pc' = "writer" /\ result' = result
    /\ UNCHANGED << aux, background, cfg, query, gpu_codec, job, progress_log,
                    info1, info2, cap1, cap2, output_fps, max_frames, frames_out,
                    files, invocations, mux_result, positions >>

\* _create_video_frames lines 168-180: the writer creates the intermediate file.
OpenWriter ==
    /\ pc = "writer"
    /\ files' = [files EXCEPT !.temp_video = TRUE]
    /\ pc' = "frames"
    /\ UNCHANGED << aux, background, cfg, query, gpu_codec, job, progress_log, info1, info2,
                    cap1, cap2, output_fps, max_frames, audio, frames_out,
                    invocations, mux_result, result, positions >>

\* Variants of FrameProgress: counting the remaining frames, a 20..100
\* range without the cap, and the plain percentage of frames written.
FrameProgressDescending(frame_idx, frames) ==
    RMin(<< 10 * frames + 80 * (frames - frame_idx), frames >>, Rat(90))

FrameProgressUncapped(frame_idx, frames) ==
    << 20 * frames + 80 * frame_idx, frames >>

FrameProgressPercent(frame_idx, frames) ==
    RMin(<< 100 * frame_idx, frames >>, Rat(100))

\* min(10.0 + (frame_idx / max_frames) * 80.0, 90.0)
FrameProgress(frame_idx, frames) ==
    RMin(<< 10 * frames + 80 * frame_idx, frames >>, Rat(90))

\* The decoder after a read() that returned frame.
Advance(cap, frame) ==
    [cap EXCEPT !.pos = IF frame = NoFrame THEN @ ELSE @ + 1,
                !.reads = Append(@, frame)]

\* Variant of LoopContinues that runs one more iteration.
LoopContinuesInclusive(frame_idx, frames) == frame_idx <= frames

\* while frame_idx < max_frames
LoopContinues(frame_idx, frames) == frame_idx < frames

\* One iteration of the loop of _create_video_frames (lines 181-211).  An
\* exception of compose_frame ends _create_video_frames with False, and
\* export_video returns False at line 125.
\* Faults says whether read() may fail on a frame the stream still holds (a
\* damaged frame): the read returns (False, None), and the decoder either
\* stays on the frame or has moved past it.
CreateFrameWith(Faults) ==
    /\ pc = "frames"
    /\ LoopContinues(Len(frames_out), max_frames)
    /\ \E fault1 \in Faults, fault2 \in Faults, skip1 \in Faults, skip2 \in Faults :
          /\ fault1 => cap1.pos < info1.frame_count
          /\ fault2 => cap2.pos < info2.frame_count
          /\ skip1 => fault1
          /\ skip2 => fault2
          /\ LET frame1 == IF fault1 THEN NoFrame
                           ELSE cap_read(cap1.pos, info1.frame_count)
                 frame2 == IF fault2 THEN NoFrame
                           ELSE cap_read(cap2.pos, info2.frame_count)
                 composed == compose_frame(cfg.lay, frame1, frame2, info1, info2,
                                           cfg.name1, cfg.name2, Len(frames_out))
             IN  /\ cap1' = [Advance(cap1, frame1) EXCEPT
                                !.pos = IF skip1 THEN @ + 1 ELSE @]
                 /\ cap2' = [Advance(cap2, frame2) EXCEPT
                                !.pos = IF skip2 THEN @ + 1 ELSE @]
                 /\ positions' = _calculate_speaker_positions(
                                    cfg.lay.width, cfg.lay.height,
                                    cfg.lay.spk_w, cfg.lay.spk_h, cfg.lay.position)
                 /\ IF composed.raised
                    THEN /\ ReturnFalse
                         /\ UNCHANGED << frames_out, job, progress_log >>
                    ELSE /\ frames_out' = Append(frames_out, composed)
                         /\ progress_cb(FrameProgress(Len(frames_out) + 1, max_frames))
                         /\ UNCHANGED << pc, result >>
    /\ UNCHANGED << aux, background, cfg, query, gpu_codec, info1, info2, output_fps, max_frames,
                    audio, files, invocations, mux_result >>

\* The sources decode every frame they hold.
CreateFrame == CreateFrameWith({FALSE})

\* Loop exit: out.release(), return True; export_video lines 127-130.
FramesDone ==
    /\ pc = "frames"
    /\ ~LoopContinues(Len(frames_out), max_frames)
    /\ progress_cb(Rat(92))
    /\ pc' = "mux"
    /\ UNCHANGED << aux, background, cfg, query, gpu_codec, info1, info2, cap1, cap2,
                    output_fps, max_frames, audio, frames_out, files,
                    invocations, mux_result, result, positions >>

\* ------------------------------------- ExportService._combine_video_audio
\* Outcome of one subprocess.run(command, check=True): exit code 0, a nonzero
\* exit code (CalledProcessError, caught by run_ffmpeg), or the process cannot
\* be launched (FileNotFoundError / OSError, not caught by run_ffmpeg).
EncoderOutcomes == {"ok", "nonzero", "launch_fail"}

\* A failing encoder may leave a partial file at the output path.
AfterFailedEncode(out) == {out, "partial"}

\* Lines 244-269 / 318-326: (save the mix,) first encoder invocation with the
\* resolved codec.
MuxFirst ==
    /\ pc = "mux"
    /\ \E save_ok \in BOOLEAN, outcome \in EncoderOutcomes :
          /\ ~audio.mixed => save_ok
          /\ (audio.mixed /\ ~save_ok) => outcome # "ok"
          /\ invocations' = Append(invocations,
                 [cmd |-> gpu_cmd(audio.mixed, gpu_codec, cfg.vc),
                  stage |-> "gpu", outcome |-> outcome])
          /\ CASE outcome = "ok" ->
                    /\ files' = [files EXCEPT !.temp_audio = FALSE, !.output = "encoded"]
                    /\ mux_result' = "True"
                    /\ pc' = "cleanup" /\ result' = result
               [] outcome = "nonzero" ->
                    /\ \E o \in AfterFailedEncode(files.output) :
                          files' = [files EXCEPT !.temp_audio = (audio.mixed /\ save_ok),
                                                 !.output = o]
                    /\ mux_result' = mux_result
                    /\ pc' = "mux_cpu" /\ result' = result
               [] outcome = "launch_fail" ->
                    /\ files' = [files EXCEPT !.temp_audio = (audio.mixed /\ save_ok)]
                    /\ mux_result' = mux_result
                    /\ ReturnFalse
    /\ UNCHANGED << aux, background, cfg, query, gpu_codec, job, progress_log, info1, info2,
                    cap1, cap2, output_fps, max_frames, audio, frames_out, positions >>

\* Lines 271-310 / 328-351: the libx264 retry; after its failure the temp
\* audio is removed (OSError ignored) before the last resort.
MuxCpu ==
    /\ pc = "mux_cpu"
    /\ \E outcome \in EncoderOutcomes :
          /\ (audio.mixed /\ ~files.temp_audio) => outcome # "ok"
          /\ invocations' = Append(invocations,
                 [cmd |-> cpu_cmd(audio.mixed, cfg.vc),
                  stage |-> "cpu", outcome |-> outcome])
          /\ CASE outcome = "ok" ->
                    /\ files' = [files EXCEPT !.temp_audio = FALSE, !.output = "encoded"]
                    /\ mux_result' = "True"
                    /\ pc' = "cleanup" /\ result' = result
               [] outcome = "nonzero" ->
                    /\ \E o \in AfterFailedEncode(files.output) :
                          files' = [files EXCEPT !.temp_audio = FALSE, !.output = o]
                    /\ mux_result' = mux_result
                    /\ pc' = "rename" /\ result' = result
               [] outcome = "launch_fail" ->
                    /\ files' = files
                    /\ mux_result' = mux_result
                    /\ ReturnFalse
    /\ UNCHANGED << aux, background, cfg, query, gpu_codec, job, progress_log, info1, info2,
                    cap1, cap2, output_fps, max_frames, audio, frames_out, positions >>

\* Lines 311-316 / 354-359: os.rename(temp_video, output_path); an OSError
\* makes _combine_video_audio return False.
MuxRename ==
    /\ pc = "rename"
    /\ \E rename_ok \in BOOLEAN :
          IF rename_ok
          THEN /\ files' = [files EXCEPT !.temp_video = FALSE, !.output = "intermediate"]
               /\ mux_result' = "True"
          ELSE /\ files' = files
               /\ mux_result' = "False"
    /\ pc' = "cleanup"
    /\ UNCHANGED << aux, background, cfg, query, gpu_codec, job, progress_log, info1, info2,
                    cap1, cap2, output_fps, max_frames, audio, frames_out,
                    invocations, result, positions >>

\* export_video lines 135-149: release the decoders, remove the intermediate
\* video, report 100 and return True on success, return False otherwise.
Cleanup ==
    /\ pc = "cleanup"
    /\ cap1' = [cap1 EXCEPT !.released = TRUE]
    /\ cap2' = [cap2 EXCEPT !.released = TRUE]
    /\ files' = [files EXCEPT !.temp_video = FALSE]
    /\ IF mux_result = "True"
       THEN /\ progress_cb(Rat(100))
            /\ result' = "True"
       ELSE /\ UNCHANGED << job, progress_log >>
            /\ result' = "False"
    /\ pc' = "returned"
    /\ UNCHANGED << aux, background, cfg, query, gpu_codec, info1, info2, output_fps, max_frames,
                    audio, frames_out, invocations, mux_result, positions >>

\* run_export lines 286-291: the worker records the outcome in the job entry.
WorkerFinish ==
    /\ pc = "returned"
    /\ job' = [status |-> IF result = "True" THEN "done" ELSE "error",
               progress |-> IF result = "True" THEN Rat(100) ELSE job.progress]
    /\ pc' = "finished"
    /\ UNCHANGED << aux, background, cfg, query, gpu_codec, progress_log, info1, info2, cap1, cap2,
                    output_fps, max_frames, audio, frames_out, files,
                    invocations, mux_result, result, positions >>

\* export_status (GET /api/export/status/{job_id}) for the entry j, read
\* under jobs_lock: 404 without an entry, else the entry's status and progress.
export_status(j) ==
    IF j.status = "none"
    THEN [code |-> 404, error |-> "not found"]
    ELSE [code |-> 200, status |-> j.status, progress |-> j.progress]

Next ==
    \/ Construct
    \/ CreateJob
    \/ ExportStart
    \/ LoadBackground
    \/ Probe
    \/ AudioPhase
    \/ MixPhase
    \/ OpenWriter
    \/ CreateFrame
    \/ FramesDone
    \/ MuxFirst
    \/ MuxCpu
    \/ MuxRename
    \/ Cleanup
    \/ WorkerFinish

Spec == Init /\ [][Next]_vars

\* --------------------------------------------------------- the frame loop
\* _create_video_frames on its own, entered the way export_video enters it
\* (both sources opened, no audio track in either, checkpoints 2 and 10
\* passed), with sources whose frames may fail to decode.
LoopInfos ==
    { [fps |-> 24, frame_count |-> n, width |-> 640, height |-> 480] : n \in FrameCounts }

LoopInit ==
    /\ pc = "writer"
    /\ cfg \in [use_gpu : {TRUE}, fps : {24},
                vc : {CHOOSE v \in VideoCodecs : v.codec = "libx264"},
                lay : Layouts, name1 : {"Alice"}, name2 : {"Bob"}]
    /\ query = [ok |-> TRUE, encoders |-> {"h264_nvenc"}]
    /\ gpu_codec = "h264_nvenc"
    /\ job = [status |-> "running", progress |-> Rat(10)]
    /\ progress_log = << Rat(2), Rat(10) >>
    /\ info1 \in LoopInfos /\ info2 \in LoopInfos
    /\ cap1 = [ClosedCap EXCEPT !.opened = TRUE]
    /\ cap2 = [ClosedCap EXCEPT !.opened = TRUE]
    /\ output_fps = calculate_output_fps(info1.fps, info2.fps, cfg.fps)
    /\ max_frames = calculate_max_frames(info1.frame_count, info2.frame_count)
    /\ audio = [a1 |-> FALSE, a2 |-> FALSE, mixed |-> FALSE, length |-> 0,
                raised |-> FALSE]
    /\ frames_out = << >>
    /\ files = [temp_video |-> FALSE, temp_audio |-> FALSE, extract_temp |-> FALSE,
                output |-> "absent"]
    /\ invocations = << >>
    /\ mux_result = "pending"
    /\ result = "pending"
    /\ positions = NoPositions
    /\ background = "ok"
    /\ InitAux

CreateFrameFaulty == CreateFrameWith(BOOLEAN)

LoopNext ==
    \/ OpenWriter
    \/ CreateFrameFaulty
    \/ FramesDone

LoopSpec == LoopInit /\ [][LoopNext]_vars

\* The loop runs in one thread that nothing suspends: an iteration that can
\* be taken is taken.
FairLoopSpec == LoopSpec /\ WF_vars(LoopNext)

\* ------------------------------------------------------------ layout sweep
\* _calculate_speaker_positions as a function of the configured sizes, for
\* every output size and speaker box up to MaxDim.
Dims == 1..MaxDim
SweepLayouts ==
    { [width |-> ow, height |-> oh, spk_w |-> sw, spk_h |-> sh,
       text_w |-> 1, text_h |-> 1, padding |-> 0, position |-> NoPosition] :
         ow \in Dims, oh \in Dims, sw \in Dims, sh \in Dims }

LayoutInit ==
    /\ pc = "layout"
    /\ cfg \in [use_gpu : {TRUE}, fps : {30}, vc : VideoCodecs,
                lay : SweepLayouts, name1 : {"Alice"}, name2 : {"Bob"}]
    /\ query = [ok |-> TRUE, encoders |-> {}]
    /\ InitRest
    /\ InitAux

CalculatePositions ==
    /\ pc = "layout"
    /\ positions' = _calculate_speaker_positions(
                       cfg.lay.width, cfg.lay.height,
                       cfg.lay.spk_w, cfg.lay.spk_h, cfg.lay.position)
    /\ pc' = "layout_done"
    /\ UNCHANGED << aux, background, cfg, query, gpu_codec, job, progress_log, info1, info2,
                    cap1, cap2, output_fps, max_frames, audio, frames_out,
                    files, invocations, mux_result, result >>

LayoutNext == CalculatePositions

LayoutSpec == LayoutInit /\ [][LayoutNext]_vars

\* ------------------------------------------------------------ resize sweep
\* resize_with_aspect_ratio for every source and target size up to MaxDim.
IdlePipeline ==
    /\ cfg = [use_gpu |-> TRUE, fps |-> 30,
              vc |-> CHOOSE v \in VideoCodecs : v.codec = "libx264",
              lay |-> CHOOSE l \in Layouts : l.width = 640,
              name1 |-> "Alice", name2 |-> "Bob"]
    /\ query = [ok |-> TRUE, encoders |-> {}]
    /\ InitRest

NoResize == [raised |-> FALSE, new_width |-> 0, new_height |-> 0,
             x_offset |-> 0, y_offset |-> 0, width |-> 0, height |-> 0]

ResizeInit ==
    /\ pc = "resize"
    /\ IdlePipeline
    /\ InitServer
    /\ calc \in [fn : {"resize"}, w : Dims, h : Dims,
                  target_width : Dims, target_height : Dims, out : {NoResize}]

ApplyResize ==
    /\ pc = "resize"
    /\ calc' = [calc EXCEPT !.out = resize_with_aspect_ratio(
                     calc.w, calc.h, calc.target_width, calc.target_height)]
    /\ pc' = "resize_done"
    /\ UNCHANGED << pipeline, jobs, jobs_lock, threads, access, responses, handlers >>

ResizeNext == ApplyResize

ResizeSpec == ResizeInit /\ [][ResizeNext]_vars

\* --------------------------------------------------------------- mix sweep
\* An audio buffer is absent (None) or a sequence of samples.
NoAudio == [present |-> FALSE, samples |-> << >>]
Samples == {-1, 0, 1}
SeqsUpTo(n) == UNION { [1..k -> Samples] : k \in 0..n }
Buffers == {NoAudio} \cup { [present |-> TRUE, samples |-> q] : q \in SeqsUpTo(MaxSamples) }

Abs(x) == IF x < 0 THEN -x ELSE x
RECURSIVE MaxOf(_)
MaxOf(q) == IF Len(q) = 1 THEN q[1] ELSE Max2(q[1], MaxOf(Tail(q)))

\* np.pad(audio, (0, max(0, target_length - len(audio))))[:target_length]
PadTo(q, target_length) ==
    SubSeq(q \o [i \in 1..Max2(0, target_length - Len(q)) |-> 0], 1, target_length)

\* AudioProcessor.mix_audio on sample buffers; max_duration is the exact
\* quotient << numerator, denominator >>.  The result is None when both
\* inputs are None; np.max over an empty mix raises ValueError; a mix with a
\* nonzero peak is scaled by 0.8 / peak.  Output samples are exact
\* quotients << numerator, denominator >>.
mix_audio_samples(audio1, audio2, sr, max_duration) ==
    IF ~audio1.present /\ ~audio2.present
    THEN [raised |-> FALSE, present |-> FALSE, samples |-> << >>]
    ELSE LET target_length == TruncProduct(sr, max_duration[1], max_duration[2])
             p1 == IF audio1.present THEN PadTo(audio1.samples, target_length)
                   ELSE [i \in 1..target_length |-> 0]
             p2 == IF audio2.present THEN PadTo(audio2.samples, target_length)
                   ELSE [i \in 1..target_length |-> 0]
             mixed_audio == [i \in 1..target_length |-> p1[i] + p2[i]]
         IN  IF target_length = 0
             THEN [raised |-> TRUE, present |-> FALSE, samples |-> << >>]
             ELSE LET max_amplitude == MaxOf([i \in 1..target_length |-> Abs(mixed_audio[i])])
                  IN  [raised |-> FALSE, present |-> TRUE,
                       samples |-> [i \in 1..target_length |->
                                      IF max_amplitude > 0
                                      THEN << 4 * mixed_audio[i], 5 * max_amplitude >>
                                      ELSE Rat(mixed_audio[i])]]

SweepRates == {1, 2}
SweepDurations == { << f, 2 >> : f \in FrameCounts }
NoMix == [raised |-> FALSE, present |-> FALSE, samples |-> << >>]

MixInit ==
    /\ pc = "mix"
    /\ IdlePipeline
    /\ InitServer
    /\ calc \in [fn : {"mix"}, audio1 : Buffers, audio2 : Buffers,
                  sr : SweepRates, max_duration : SweepDurations, out : {NoMix}]

ApplyMix ==
    /\ pc = "mix"
    /\ calc' = [calc EXCEPT !.out = mix_audio_samples(
                     calc.audio1, calc.audio2, calc.sr, calc.max_duration)]
    /\ pc' = "mix_done"
    /\ UNCHANGED << pipeline, jobs, jobs_lock, threads, access, responses, handlers >>

MixNext == ApplyMix

MixSpec == MixInit /\ [][MixNext]_vars

\* ------------------------------------------------------------ compose sweep
\* compose_frame for layouts with boxes and plates inside, across and beyond
\* the edges of the output frame, auto-centered and at a fixed position.
FixedPositions == { [x |-> 0, y |-> 0], [x |-> 60, y |-> 150], [x |-> 300, y |-> 20] }
ComposeLayouts ==
    { [width |-> ow, height |-> oh, spk_w |-> sw, spk_h |-> sh,
       text_w |-> tw, text_h |-> 20, padding |-> 10, position |-> p] :
         ow \in {400, 640}, oh \in {300, 400}, sw \in {150, 250, 500},
         sh \in {100, 280, 350}, tw \in {80, 300},
         p \in {NoPosition} \cup FixedPositions }

OrdinarySize == CHOOSE s \in SourceSizes : s.width = 640
NoComposed == [raised |-> FALSE, idx |-> 0,
               box1 |-> NoFrame, plate1 |-> FALSE, plate1_at |-> NoRect,
               box2 |-> NoFrame, plate2 |-> FALSE, plate2_at |-> NoRect]

ComposeInit ==
    /\ pc = "compose"
    /\ IdlePipeline
    /\ InitServer
    /\ calc \in [fn : {"compose"}, lay : ComposeLayouts,
                  frame1 : {NoFrame, 0}, frame2 : {NoFrame, 0},
                  name1 : {"", "Alice"}, name2 : {"Bob"}, out : {NoComposed}]

ApplyCompose ==
    /\ pc = "compose"
    /\ calc' = [calc EXCEPT !.out = compose_frame(calc.lay, calc.frame1, calc.frame2,
                     OrdinarySize, OrdinarySize, calc.name1, calc.name2, 0)]
    /\ pc' = "compose_done"
    /\ UNCHANGED << pipeline, jobs, jobs_lock, threads, access, responses, handlers >>

ComposeNext == ApplyCompose

ComposeSpec == ComposeInit /\ [][ComposeNext]_vars

\* ----------------------------------------------------------- overlay sweep
\* ImageProcessor.overlay_image on a background of bg_w x bg_h pixels of one
\* colour and an opaque overlay of ov_w x ov_h pixels of another colour.
\* After the bounds check the region of interest is the numpy slice
\* result[y:y+h, x:x+w]; a BGRA overlay is blended by broadcasting its (h, w)
\* planes against the region and assigning the product back, a BGR overlay
\* goes through cv2.addWeighted, which needs both operands of one size.
\* painted is the set of <<row, column>> cells of the result that differ
\* from the background.
Channels == {3, 4}

AxisFits(roi_len, ov_len, channels) ==
    IF channels = 4 THEN roi_len = ov_len \/ ov_len = 1
    ELSE roi_len = ov_len

overlay_image_result(bg_w, bg_h, ov_w, ov_h, x, y, channels) ==
    IF ~overlay_image(bg_w, bg_h, ov_w, ov_h, x, y)
    THEN [raised |-> FALSE, painted |-> {}]
    ELSE LET rows == SliceLen(y, y + ov_h, bg_h)
             cols == SliceLen(x, x + ov_w, bg_w)
             top == SliceBound(y, bg_h)
             left == SliceBound(x, bg_w)
         IN  IF AxisFits(rows, ov_h, channels) /\ AxisFits(cols, ov_w, channels)
             THEN [raised |-> FALSE,
                   painted |-> { <<r, c>> \in (0 .. bg_h - 1) \X (0 .. bg_w - 1) :
                                    /\ top <= r /\ r < top + rows
                                    /\ left <= c /\ c < left + cols }]
             ELSE [raised |-> TRUE, painted |-> {}]

NoOverlay == [raised |-> FALSE, painted |-> {<<-1, -1>>}]

OverlayInit ==
    /\ pc = "overlay"
    /\ calc \in [fn : {"overlay"}, bg_w : 1 .. MaxDim, bg_h : 1 .. MaxDim,
                 ov_w : 1 .. MaxDim, ov_h : 1 .. MaxDim,
                 x : -MaxDim .. MaxDim, y : -MaxDim .. MaxDim,
                 channels : Channels, out : {NoOverlay}]
    /\ IdlePipeline
    /\ InitServer

ApplyOverlay ==
    /\ pc = "overlay"
    /\ pc' = "overlay_done"
    /\ calc' = [calc EXCEPT !.out =
                   overlay_image_result(calc.bg_w, calc.bg_h, calc.ov_w, calc.ov_h,
                                        calc.x, calc.y, calc.channels)]
    /\ UNCHANGED << pipeline, jobs, jobs_lock, threads, access, responses, handlers >>

OverlayNext == ApplyOverlay

OverlaySpec == OverlayInit /\ [][OverlayNext]_vars

\* ----------------------------------------------------------- padding sweep
\* server.clamp_padding: int(output_height * 0.01) is output_height \div 100
\* for every height the export configuration admits.
clamp_padding(output_height, requested_padding) ==
    LET pydantic_padding_limit == PaddingLimit
        padding_min == Max2(PaddingFloor, output_height \div 100)
    IN  Max2(padding_min, Min2(pydantic_padding_limit, requested_padding))

\* SpeakerConfig.plate_padding: Field(ge=0, le=50); a value outside makes the
\* constructor raise ValidationError.
PlatePaddingValid(plate_padding) == 0 <= plate_padding /\ plate_padding <= PaddingLimit

\* The fields of SpeakerConfig (extra = "forbid") and the keywords
\* build_configs passes to it.
SpeakerConfigFields ==
    {"width", "height", "position", "font_size", "font_color", "plate_bg_color",
     "plate_border_color", "plate_border_width", "plate_padding", "font_path"}
SpeakerConfigKeywords ==
    {"width", "height", "position", "font_size", "font_family", "font_color",
     "plate_bg_color", "plate_border_color", "plate_border_width",
     "plate_padding"}

\* SpeakerConfig(...) at build_configs lines 81-92: the fields whose
\* validation fails, all of them reported in the one ValidationError: every
\* keyword that is not a field, and plate_padding when it is out of range.
SpeakerConfigErrors(plate_padding) ==
    (SpeakerConfigKeywords \ SpeakerConfigFields)
        \cup (IF PlatePaddingValid(plate_padding) THEN {} ELSE {"plate_padding"})

OutputHeights == 1 .. MaxOutputHeight
RequestedPaddings == {-5, 0, 10, 50, 51, 200}
NoPadding == [padding |-> -1, errors |-> {}, config_built |-> FALSE]

PaddingInit ==
    /\ pc = "padding"
    /\ calc \in [fn : {"padding"}, output_height : OutputHeights,
                 requested_padding : RequestedPaddings, out : {NoPadding}]
    /\ IdlePipeline
    /\ InitServer

\* build_configs: the clamped padding is handed to SpeakerConfig(...),
\* which builds the configuration when no field fails.
ApplyPadding ==
    /\ pc = "padding"
    /\ pc' = "padding_done"
    /\ LET dynamic_plate_padding == clamp_padding(calc.output_height, calc.requested_padding)
           errors == SpeakerConfigErrors(dynamic_plate_padding)
       IN  calc' = [calc EXCEPT !.out =
                       [padding |-> dynamic_plate_padding, errors |-> errors,
                        config_built |-> errors = {}]]
    /\ UNCHANGED << pipeline, jobs, jobs_lock, threads, access, responses, handlers >>

PaddingNext == ApplyPadding

PaddingSpec == PaddingInit /\ [][PaddingNext]_vars

\* ------------------------------------------------- server: POST /api/export
\* Names bound inside the handler export_video when it calls build_configs:
\* its parameters (lines 209-227) and the locals assigned before the call.
ExportParams ==
    {"background", "speaker1", "speaker2", "speaker1_name", "speaker2_name",
     "speaker_width", "speaker_height", "manual_font_size", "font_color",
     "plate_bg_color", "plate_border_color", "plate_border_width",
     "plate_padding", "output_width", "output_height", "fps", "ffmpeg_preset",
     "ffmpeg_crf", "use_gpu"}
ExportLocals == {"job_id", "temp_dir", "background_path", "speaker1_path",
                 "speaker2_path", "f"}
\* Module-level names of server.py.
ModuleNames == {"os", "tempfile", "Path", "Tuple", "threading", "uuid", "logger",
                "app", "static_dir", "public_dir", "jobs", "jobs_lock",
                "build_configs", "clamp_font_size", "clamp_padding",
                "CompositionEngine", "ExportService", "MeetingConfig",
                "SpeakerConfig"}
\* The positional arguments of the build_configs call at lines 245-261.
BuildConfigsArgs ==
    << "speaker_width", "speaker_height", "manual_font_size", "font_family",
       "font_color", "plate_bg_color", "plate_border_color",
       "plate_border_width", "plate_padding", "output_width", "output_height",
       "fps", "ffmpeg_preset", "ffmpeg_crf", "use_gpu" >>
UnboundNames(args, bound) == { args[i] : i \in DOMAIN args } \ bound

Requests == [kind : {"export"}, job_id : {0}, use_gpu : BOOLEAN,
             fps : RequestedFps, preset : {"fast", "slow"}]
Rejected(error) == [code |-> 500, error |-> error, job_id |-> 0, dir_left |-> TRUE]

\* The handler export_video of POST /api/export for a well-formed request:
\* the uploads are stored in a fresh directory, then the first exception
\* (an unbound name among the arguments of build_configs, a keyword
\* SpeakerConfig forbids, a raise of ExportService.__init__) is answered
\* with status 500 by the except clause; otherwise the job is registered
\* as running and its id returned.
api_export(req, registry, host) ==
    IF UnboundNames(BuildConfigsArgs, ExportParams \cup ExportLocals \cup ModuleNames) # {}
    THEN [response |-> Rejected("NameError"), jobs |-> registry, started |-> FALSE]
    ELSE IF ~(SpeakerConfigKeywords \subseteq SpeakerConfigFields)
    THEN [response |-> Rejected("ValidationError"), jobs |-> registry, started |-> FALSE]
    ELSE IF _detect_gpu_codec(req.use_gpu, None, host).raised
    THEN [response |-> Rejected("ValidationError"), jobs |-> registry, started |-> FALSE]
    ELSE [response |-> [code |-> 200, error |-> "", job_id |-> Len(registry) + 1,
                        dir_left |-> TRUE],
          jobs |-> Append(registry, [status |-> "running", progress |-> Rat(0)]),
          started |-> TRUE]

ServerInit ==
    /\ pc = "serve"
    /\ IdlePipeline
    /\ calc = NoCalc
    /\ InitServer

\* The uploads in the order the handler stores them.
Uploads == << "background", "speaker1", "speaker2" >>
RemoveAt(seq, i) == SubSeq(seq, 1, i - 1) \o SubSeq(seq, i + 1, Len(seq))

\* Lines 229-239: the handler makes the export_* directory, opens the file
\* of the first upload and awaits its content; the event loop may run other
\* handlers until it resumes.
ExportAccept ==
    /\ pc = "serve"
    /\ Len(responses) + Len(handlers) < MaxRequests
    /\ \E req \in Requests :
          handlers' = Append(handlers, [request |-> req, awaiting |-> 1,
                                        files |-> {Uploads[1]}])
    /\ UNCHANGED << pc, pipeline, calc, jobs, jobs_lock, threads, access, responses >>

\* Lines 239-243: the awaited upload is written, the file of the next one
\* opened and its content awaited.
ExportStore(i) ==
    /\ pc = "serve"
    /\ i \in DOMAIN handlers
    /\ handlers[i].awaiting < Len(Uploads)
    /\ handlers' = [handlers EXCEPT ![i].awaiting = @ + 1,
                                    ![i].files = @ \cup {Uploads[handlers[i].awaiting + 1]}]
    /\ UNCHANGED << pc, pipeline, calc, jobs, jobs_lock, threads, access, responses >>

\* Lines 243-302: the last upload is written and the handler runs to its
\* answer without another await.
ExportAnswer(i) ==
    /\ pc = "serve"
    /\ i \in DOMAIN handlers
    /\ handlers[i].awaiting = Len(Uploads)
    /\ LET r == api_export(handlers[i].request, jobs, query)
       IN  /\ responses' = Append(responses, [request |-> handlers[i].request,
                                              response |-> r.response])
           /\ jobs' = r.jobs
           /\ threads' = IF r.started
                         THEN Append(threads, [pc |-> "idle", job |-> Len(jobs) + 1])
                         ELSE threads
    /\ handlers' = RemoveAt(handlers, i)
    /\ UNCHANGED << pc, pipeline, calc, jobs_lock, access >>

HandleExport ==
    \/ ExportAccept
    \/ \E i \in 1..MaxRequests : ExportStore(i)
    \/ \E i \in 1..MaxRequests : ExportAnswer(i)

\* GET /api/export/status/{job_id} for any job id a client may hold.
HandleStatus ==
    /\ pc = "serve"
    /\ Len(responses) + Len(handlers) < MaxRequests
    /\ \E id \in 1..MaxRequests :
          LET found == id \in DOMAIN jobs
              entry == IF found THEN jobs[id] ELSE [status |-> "none", progress |-> Rat(0)]
          IN  responses' = Append(responses,
                  [request |-> [kind |-> "status", job_id |-> id, use_gpu |-> FALSE,
                                fps |-> 0, preset |-> ""],
                   response |-> [code |-> export_status(entry).code,
                                 error |-> IF found THEN "" ELSE "not found",
                                 job_id |-> id, dir_left |-> FALSE]])
    /\ UNCHANGED << pc, pipeline, calc, jobs, jobs_lock, threads, access, handlers >>

ServerNext == HandleExport \/ HandleStatus

ServerSpec == ServerInit /\ [][ServerNext]_vars

\* ------------------------------------------ server: workers and pollers
\* Two registered jobs, each with the worker thread run_export started for
\* it (lines 276-298), and clients polling status and download.  This is
\* the registry as lines 276-298 leave it; the handler as written raises
\* before it gets there (api_export), so the specification below describes
\* the worker and polling code, not states a request to this server reaches.
JobIds == {1, 2}
UnknownId == 3
Workers == {"worker1", "worker2"}
Pollers == {"poller1", "poller2"}
Threads == Workers \cup Pollers
WorkerJob(w) == IF w = "worker1" THEN 1 ELSE 2

\* max_frames of the two jobs: job 1 composites two frames, job 2 none.
JobFrames == << 2, 0 >>

\* The values export_video passes to progress_cb on its way through a job
\* of n frames: 2, 10, one value per composited frame (_create_video_frames
\* lines 208-211), 92, and 100 right before it returns True.
Checkpoints(n) ==
    << Rat(2), Rat(10) >> \o [i \in 1..n |-> FrameProgress(i, n)]
                          \o << Rat(92), Rat(100) >>
\* The steps of a worker: one per checkpoint, then the final update.
FinalStep(n) == Len(Checkpoints(n)) + 1
Finished(n) == FinalStep(n) + 1

\* How export_video ends for run_export: it returns True or False, or an
\* exception reaches the except clause of run_export.
ExportReturns == {"True", "False", "raised"}

\* Variant of AfterReturn: the worker goes on with the next checkpoint.
AfterReturnResumes(s, n) == s

\* The step a worker is at once export_video has returned or raised at
\* step s: the callbacks are over, the final update is all that is left.
AfterReturn(s, n) == FinalStep(n)

\* run_export lines 287-296: the final update of the entry.
run_export_final(entry, ret) ==
    IF ret = "True" THEN [status |-> "done", progress |-> Rat(100)]
    ELSE [entry EXCEPT !.status = "error"]

\* Variant of export_download that holds back running jobs only.
DownloadUnlessRunning(found, status) ==
    IF ~found THEN [code |-> 404, error |-> "not found"]
    ELSE IF status = "running" THEN [code |-> 400, error |-> "not ready"]
    ELSE [code |-> 0, error |-> ""]

\* export_download lines 316-322, under the lock: code 0 stands for a path
\* read from the entry, whose file is looked up after the lock.
export_download(found, status) ==
    IF ~found THEN [code |-> 404, error |-> "not found"]
    ELSE IF status # "done" THEN [code |-> 400, error |-> "not ready"]
    ELSE [code |-> 0, error |-> ""]

NoSeen == [code |-> 0, status |-> "", progress |-> Rat(0), error |-> ""]

\* threading.Lock: acquire succeeds only while nobody holds the lock.
\* Variant that lets every thread in.
AcquireAlways(holder) == TRUE

CanAcquire(holder) == holder = NoHolder

JobsInit ==
    /\ pc = "jobs"
    /\ IdlePipeline
    /\ calc = NoCalc
    /\ jobs = [j \in JobIds |-> [status |-> "running", progress |-> Rat(0)]]
    /\ jobs_lock = NoHolder
    /\ threads = [t \in Threads |->
                    [pc |-> "idle", job |-> IF t \in Workers THEN WorkerJob(t) ELSE 0,
                     frames |-> IF t \in Workers THEN JobFrames[WorkerJob(t)] ELSE 0,
                     step |-> 1, polls |-> 0,
                     kind |-> IF t \in Workers THEN "write" ELSE "status",
                     ret |-> "pending", seen |-> NoSeen]]
    /\ access = NoAccess
    /\ responses = << >>
    /\ handlers = << >>

\* `with jobs_lock:` of progress_cb (line 282) or of the final update
\* (line 287 / 294).
WorkerEnter(w) ==
    /\ pc = "jobs"
    /\ threads[w].pc = "idle" /\ threads[w].step < Finished(threads[w].frames)
    /\ CanAcquire(jobs_lock)
    /\ jobs_lock' = w
    /\ threads' = [threads EXCEPT ![w].pc = "locked"]
    /\ UNCHANGED << pc, pipeline, calc, jobs, access, responses, handlers >>

\* The body under the lock.  While export_video runs, progress_cb stores
\* the clamped value of the next checkpoint or frame (lines 283-284);
\* export_video may instead return False or raise before any of them, and
\* it returns True once it has reported them all; then the final update
\* stores the outcome (lines 288-291, 295-296).
WorkerWrite(w) ==
    /\ pc = "jobs"
    /\ threads[w].pc = "locked"
    /\ LET job_id == threads[w].job
           s == threads[w].step
           n == threads[w].frames
       IN  /\ \E ret \in ExportReturns \cup {"pending"} :
                 /\ (ret = "True") = (s > Len(Checkpoints(n)))
                 /\ jobs' = IF job_id \notin DOMAIN jobs THEN jobs
                            ELSE IF ret = "pending"
                            THEN [jobs EXCEPT ![job_id].progress = Clamp(Checkpoints(n)[s])]
                            ELSE [jobs EXCEPT ![job_id] = run_export_final(@, ret)]
                 /\ threads' = [threads EXCEPT ![w].pc = "accessed", ![w].ret = ret,
                                               ![w].step = IF ret = "pending" THEN s
                                                           ELSE AfterReturn(s, n)]
           /\ access' = [thread |-> w, job |-> job_id, kind |-> "write",
                         holder |-> jobs_lock]
    /\ UNCHANGED << pc, pipeline, calc, jobs_lock, responses, handlers >>

\* A new request, not answered yet, at the `with jobs_lock:` of
\* export_status (line 307) or export_download (line 316).
PollEnter(p) ==
    /\ pc = "jobs"
    /\ threads[p].pc = "idle" /\ threads[p].polls < MaxPolls
    /\ CanAcquire(jobs_lock)
    /\ jobs_lock' = p
    /\ \E id \in JobIds \cup {UnknownId}, kind \in {"status", "download"} :
          threads' = [threads EXCEPT ![p].pc = "locked", ![p].job = id,
                                     ![p].kind = kind, ![p].polls = @ + 1,
                                     ![p].seen = NoSeen]
    /\ UNCHANGED << pc, pipeline, calc, jobs, access, responses, handlers >>

\* The body under the lock: export_status reads status and progress (lines
\* 308-311); export_download reads the status and the path (lines 317-322).
PollRead(p) ==
    /\ pc = "jobs"
    /\ threads[p].pc = "locked"
    /\ LET job_id == threads[p].job
           found == job_id \in DOMAIN jobs
           status == IF found THEN jobs[job_id].status ELSE ""
       IN  /\ threads' = [threads EXCEPT ![p].pc = "accessed", ![p].seen =
                 IF threads[p].kind = "status"
                 THEN IF ~found
                      THEN [code |-> 404, status |-> "", progress |-> Rat(0),
                            error |-> "not found"]
                      ELSE [code |-> export_status(jobs[job_id]).code,
                            status |-> export_status(jobs[job_id]).status,
                            progress |-> export_status(jobs[job_id]).progress,
                            error |-> ""]
                 ELSE [code |-> export_download(found, status).code,
                       status |-> status, progress |-> Rat(0),
                       error |-> export_download(found, status).error]]
           /\ access' = [thread |-> p, job |-> job_id, kind |-> "read",
                         holder |-> jobs_lock]
    /\ UNCHANGED << pc, pipeline, calc, jobs, jobs_lock, responses, handlers >>

\* Leaving the `with` block releases the lock.  A worker goes on to its
\* next section; a handler that returned inside the block has answered;
\* export_download with the path of a done job (line 322) goes on to look
\* the file up.
Leave(t) ==
    /\ pc = "jobs"
    /\ threads[t].pc = "accessed"
    /\ jobs_lock' = NoHolder
    /\ threads' = IF t \in Workers
                  THEN [threads EXCEPT ![t].pc = "idle", ![t].step = @ + 1]
                  ELSE IF threads[t].seen.code = 0
                  THEN [threads EXCEPT ![t].pc = "lookup"]
                  ELSE [threads EXCEPT ![t].pc = "idle"]
    /\ UNCHANGED << pc, pipeline, calc, jobs, access, responses, handlers >>

\* export_download lines 323-325, outside the lock: FileResponse for a file
\* that exists, 404 'file missing' otherwise.
Lookup(p) ==
    /\ pc = "jobs"
    /\ threads[p].pc = "lookup"
    /\ \E exists \in BOOLEAN :
          threads' = [threads EXCEPT ![p].pc = "idle", ![p].seen =
                        IF exists THEN [@ EXCEPT !.code = 200]
                        ELSE [@ EXCEPT !.code = 404, !.error = "file missing"]]
    /\ UNCHANGED << pc, pipeline, calc, jobs, jobs_lock, access, responses, handlers >>

JobsNext ==
    \/ \E w \in Workers : WorkerEnter(w)
    \/ \E w \in Workers : WorkerWrite(w)
    \/ \E p \in Pollers : PollEnter(p)
    \/ \E p \in Pollers : PollRead(p)
    \/ \E t \in Threads : Leave(t)
    \/ \E p \in Pollers : Lookup(p)

JobsSpec == JobsInit /\ [][JobsNext]_vars

\* ================================================================= claims
HasFlag(cmd, flag, value) ==
    \E i \in 1..(Len(cmd) - 1) : cmd[i] = flag /\ cmd[i + 1] = value

Returned == pc \in {"returned", "finished"}
FirstFailedNonzero == Len(invocations) >= 1 /\ invocations[1].outcome = "nonzero"
BothFailedNonzero ==
    /\ Len(invocations) >= 2
    /\ invocations[1].outcome = "nonzero"
    /\ invocations[2].outcome = "nonzero"

\* The retry after a nonzero first invocation: exactly one more invocation,
\* with libx264 and the configured preset, crf and bitrate.
RetryIsSoftware ==
    (FirstFailedNonzero /\ pc # "mux_cpu") =>
        /\ Len(invocations) = 2
        /\ invocations[2].stage = "cpu"
        /\ HasFlag(invocations[2].cmd, "-c:v", "libx264")
        /\ HasFlag(invocations[2].cmd, "-preset", cfg.vc.preset)
        /\ HasFlag(invocations[2].cmd, "-crf", ToString(cfg.vc.crf))
        /\ HasFlag(invocations[2].cmd, "-b:v", ToString(cfg.vc.bitrate_k) \o "k")
        /\ HasFlag(invocations[2].cmd, "-i", TempAudio) <=> audio.mixed

\* Nothing of the chain runs after a stage that succeeded.
NoStageAfterSuccess ==
    /\ \A i \in 1..Len(invocations) :
          invocations[i].outcome = "ok" => (i = Len(invocations) /\ pc \notin {"mux_cpu", "rename"})
    /\ files.output = "intermediate" => BothFailedNonzero
    /\ Len(invocations) <= 2

\* C1 as stated: after a nonzero first invocation exactly one libx264 retry
\* with the configured preset/crf/bitrate runs; when that also exits nonzero
\* the intermediate video is moved to the output path and the job reports
\* success; no stage runs after a successful one.
C1_AsStated ==
    /\ RetryIsSoftware
    /\ NoStageAfterSuccess
    /\ (BothFailedNonzero /\ Returned) =>
          (files.output = "intermediate" /\ result = "True")

\* C1 (amended): as C1, but after two nonzero exits the move of the
\* intermediate video is attempted once: if it succeeds the output is the
\* intermediate video and the job reports success, if it raises OSError the
\* output is not the intermediate video and the job reports failure.
C1_FallbackChain ==
    /\ RetryIsSoftware
    /\ NoStageAfterSuccess
    /\ (BothFailedNonzero /\ pc \in {"cleanup", "returned", "finished"}) =>
          /\ mux_result \in {"True", "False"}
          /\ (mux_result = "True") <=> (files.output = "intermediate")
          /\ Returned => result = mux_result

C1_Witness ==
    /\ pc = "finished" /\ audio.mixed /\ BothFailedNonzero
    /\ files.output = "intermediate" /\ result = "True" /\ job.status = "done"

\* C2: whenever export_video returns failure after the first encoder
\* invocation failed (nonzero exit or launch failure), a fallback stage was
\* attempted first.
C2_FallbackBeforeFailure ==
    (Returned /\ result = "False" /\ Len(invocations) >= 1
        /\ invocations[1].outcome # "ok") =>
            Len(invocations) >= 2

\* C3: with use_gpu = false the construction completes and the resolved codec
\* is libx264.
C3_DisabledResolvesSoftware ==
    (~cfg.use_gpu /\ pc \notin {"construct", "layout", "layout_done"}) =>
        (pc # "construct_failed" /\ gpu_codec = "libx264")

\* C4: with use_gpu = true and no hardware encoder listed, or a failing
\* query, the construction still completes and the resolved codec is libx264.
C4_DetectionNeverFatal ==
    (cfg.use_gpu /\ (~query.ok \/ query.encoders = {})
        /\ pc \notin {"construct", "layout", "layout_done"}) =>
        (pc # "construct_failed" /\ gpu_codec = "libx264")

Rank(c) == CASE c = "h264_nvenc" -> 1 [] c = "h264_qsv" -> 2 [] c = "h264_vaapi" -> 3

\* C5: with use_gpu = true and a successful query listing at least one
\* hardware encoder, the construction completes and from then on (through
\* the frame and mux phases) the resolved codec is the listed encoder of
\* highest priority nvenc > qsv > vaapi, and the first encoder invocation
\* uses it.
C5_PriorityOrder ==
    (cfg.use_gpu /\ query.ok /\ query.encoders # {} /\ pc # "construct") =>
        /\ pc # "construct_failed"
        /\ gpu_codec \in query.encoders
        /\ \A d \in query.encoders : Rank(gpu_codec) <= Rank(d)
        /\ Len(invocations) >= 1 => HasFlag(invocations[1].cmd, "-c:v", gpu_codec)

C5_Witness ==
    /\ pc = "finished" /\ Len(invocations) = 2
    /\ query.encoders = {"h264_qsv", "h264_vaapi"} /\ gpu_codec = "h264_qsv"

InRange(p) == RLeq(Rat(0), p) /\ RLeq(p, Rat(100))

ProgressLogMonotone ==
    /\ \A i \in 1..Len(progress_log) : InRange(progress_log[i])
    /\ \A i \in 1..(Len(progress_log) - 1) : RLeq(progress_log[i], progress_log[i + 1])
    /\ InRange(job.progress)

\* C6: the values passed to the progress callback are non-decreasing and in
\* [0, 100], and the progress stored in the job entry never decreases and
\* stays in [0, 100].
C6_ProgressMonotone ==
    /\ []ProgressLogMonotone
    /\ [][RLeq(job.progress, job'.progress)]_vars

C6_Witness ==
    /\ pc = "finished" /\ result = "True" /\ max_frames >= 2
    /\ Len(progress_log) = max_frames + 4
    /\ REq(job.progress, Rat(100))

Reported100 == \E i \in 1..Len(progress_log) : REq(progress_log[i], Rat(100))

\* C7: 100 is reported only once the mux phase and the cleanup are over and
\* export_video is returning True; a returned export reported 100 iff it
\* returned True, and a failed one ends below 100.
C7_HundredOnlyOnSuccess ==
    /\ Reported100 =>
          /\ Returned /\ result = "True" /\ mux_result = "True"
          /\ ~files.temp_video /\ cap1.released /\ cap2.released
    /\ (Returned /\ result = "True") => Reported100
    /\ (Returned /\ result = "False") =>
          /\ \A i \in 1..Len(progress_log) : RLt(progress_log[i], Rat(100))
          /\ RLt(job.progress, Rat(100))

C7_Witness ==
    /\ pc = "returned" /\ result = "False" /\ mux_result = "False"
    /\ Len(progress_log) = max_frames + 3 /\ max_frames >= 1
    /\ REq(progress_log[Len(progress_log)], Rat(92))

\* C8: once both sources are probed, output fps is the minimum of the two
\* stream rates and the requested rate, and the frame count is the maximum
\* of the two stream lengths.
C8_TimelinePlan ==
    (cap1.opened /\ cap2.opened) =>
        /\ output_fps \in {info1.fps, info2.fps, cfg.fps}
        /\ output_fps <= info1.fps /\ output_fps <= info2.fps /\ output_fps <= cfg.fps
        /\ max_frames \in {info1.frame_count, info2.frame_count}
        /\ max_frames >= info1.frame_count /\ max_frames >= info2.frame_count
        /\ (info1.fps = 30 /\ info2.fps = 24 /\ cfg.fps = 60) => output_fps = 24

C8_Witness ==
    /\ pc = "audio" /\ info1.fps = 30 /\ info2.fps = 24 /\ cfg.fps = 60
    /\ output_fps = 24
    /\ info1.frame_count = 1 /\ info2.frame_count = 3 /\ max_frames = 3

BoxInside(lay, pos) ==
    /\ 0 <= pos.x /\ pos.x + lay.spk_w <= lay.width
    /\ 0 <= pos.y /\ pos.y + lay.spk_h <= lay.height

AutoPositions ==
    _calculate_speaker_positions(cfg.lay.width, cfg.lay.height,
                                 cfg.lay.spk_w, cfg.lay.spk_h, cfg.lay.position)

\* C9: in every composited frame i at or beyond a stream's frame count that
\* speaker has neither box nor plate; a box that is drawn always shows source
\* frame i (never an earlier frame again); the other speaker, while its
\* stream lasts and its box lies inside the output, is still drawn.
C9_ExhaustedIsAbsent ==
    \A k \in 1..Len(frames_out) :
        LET f == frames_out[k]
            i == k - 1
        IN  /\ f.idx = i
            /\ i >= info1.frame_count => (f.box1 = NoFrame /\ ~f.plate1)
            /\ i >= info2.frame_count => (f.box2 = NoFrame /\ ~f.plate2)
            /\ f.box1 \in {NoFrame, i} /\ f.box2 \in {NoFrame, i}
            /\ (i < info1.frame_count /\ BoxInside(cfg.lay, AutoPositions.s1)) => f.box1 = i
            /\ (i < info2.frame_count /\ BoxInside(cfg.lay, AutoPositions.s2)) => f.box2 = i

C9_Witness ==
    /\ Len(frames_out) = 3 /\ info1.frame_count = 3 /\ info2.frame_count = 1
    /\ frames_out[1].box2 = 0 /\ frames_out[1].plate2
    /\ frames_out[2].box2 = NoFrame /\ ~frames_out[2].plate2
    /\ frames_out[3].box2 = NoFrame /\ ~frames_out[3].plate2
    /\ frames_out[3].box1 = 2 /\ frames_out[3].plate1

NoOverlap(lay, p) ==
    \/ p.s1.x + lay.spk_w <= p.s2.x
    \/ p.s2.x + lay.spk_w <= p.s1.x
    \/ p.s1.y + lay.spk_h <= p.s2.y
    \/ p.s2.y + lay.spk_h <= p.s1.y

\* C10 as stated: for every auto-centered layout with 1 <= speaker width <=
\* output width and 1 <= speaker height <= output height the two boxes do not
\* overlap and lie inside the output frame.
C10_AsStated ==
    (pc = "layout_done" /\ cfg.lay.spk_w <= cfg.lay.width
        /\ cfg.lay.spk_h <= cfg.lay.height) =>
        /\ NoOverlap(cfg.lay, positions)
        /\ BoxInside(cfg.lay, positions.s1)
        /\ BoxInside(cfg.lay, positions.s2)

\* C10 (amended): the same for every auto-centered layout whose speaker width
\* is at most half of the output width (output width // 2).
C10_HalfWidthLayout ==
    (pc = "layout_done" /\ cfg.lay.spk_w <= cfg.lay.width \div 2
        /\ cfg.lay.spk_h <= cfg.lay.height) =>
        /\ NoOverlap(cfg.lay, positions)
        /\ BoxInside(cfg.lay, positions.s1)
        /\ BoxInside(cfg.lay, positions.s2)

C10_Witness ==
    /\ pc = "layout_done" /\ cfg.lay.width = 4 /\ cfg.lay.spk_w = 1
    /\ cfg.lay.height = 3 /\ cfg.lay.spk_h = 2
    /\ positions.s1 = [x |-> 0, y |-> 0] /\ positions.s2 = [x |-> 2, y |-> 0]

\* C11: for every source size w, h >= 1 and target tw, th >= 1 the resize
\* does not fail and returns a raster of exactly tw x th; the scaled size
\* has both dimensions at least 1 and at most the target's.
C11_AsStated ==
    pc = "resize_done" =>
        /\ ~calc.out.raised
        /\ calc.out.width = calc.target_width
        /\ calc.out.height = calc.target_height
        /\ 1 <= calc.out.new_width /\ calc.out.new_width <= calc.target_width
        /\ 1 <= calc.out.new_height /\ calc.out.new_height <= calc.target_height

\* Python's round() of the quotient n / d (ties go to the even integer).
RoundQuotient(n, d) ==
    LET q == n \div d
        r2 == 2 * (n % d)
    IN  IF r2 < d THEN q
        ELSE IF r2 > d THEN q + 1
        ELSE IF q % 2 = 0 THEN q ELSE q + 1

\* C12: whenever export_video has a mixed buffer, its length equals
\* round(duration * sample_rate) with duration = max_frames / output_fps.
C12_AsStated ==
    audio.mixed => audio.length = RoundQuotient(max_frames * SampleRate, output_fps)

AllSilent(b) == b.present /\ \A i \in 1..Len(b.samples) : b.samples[i] = 0
\* The target length mix_audio computes for the arguments c.
TargetOf(c) == (c.max_duration[1] * c.sr) \div c.max_duration[2]

\* C13: mixing two buffers that are both all-silent, or both absent, does
\* not raise and yields a present buffer of the target length whose samples
\* are all zero.
C13_AsStated ==
    (/\ pc = "mix_done"
     /\ \/ AllSilent(calc.audio1) /\ AllSilent(calc.audio2)
        \/ ~calc.audio1.present /\ ~calc.audio2.present) =>
        /\ ~calc.out.raised
        /\ calc.out.present
        /\ Len(calc.out.samples) = TargetOf(calc)
        /\ \A i \in 1..Len(calc.out.samples) : calc.out.samples[i][1] = 0

\* C14: no failure of extract_audio for one source (no audio track, decoder
\* error, decoder not installed, decoded file not loadable) makes
\* export_video fail: the source is treated as having no audio and the
\* export goes on.
C14_AsStated ==
    ~(audio.raised /\ Returned /\ result = "False")

\* export_video has returned and the background was unreadable or a source
\* did not open.
FatalInputError ==
    /\ Returned
    /\ background = "unreadable" \/ ~cap1.opened \/ ~cap2.opened

\* C15: when the background image is unreadable or either source cannot be
\* opened, export_video returns failure, having reported only the first
\* checkpoint: no audio was extracted or mixed, no frame composed, no
\* intermediate or temporary file written, no encoder invoked, and no file
\* exists at the output path.
C15_FatalInputErrors ==
    FatalInputError =>
        /\ result = "False"
        /\ progress_log = << Rat(2) >>
        /\ ~audio.a1 /\ ~audio.a2 /\ ~audio.mixed /\ ~audio.raised
        /\ frames_out = << >>
        /\ ~files.temp_video /\ ~files.temp_audio /\ ~files.extract_temp
        /\ invocations = << >>
        /\ files.output = "absent"

C15_Witness ==
    /\ pc = "finished" /\ job.status = "error"
    /\ background = "ok" /\ cap1.opened /\ ~cap2.opened

\* C16: once export_video has returned, every decoder that was opened has
\* been released, and no intermediate video and no temporary audio file
\* (of the mix or of an extraction) remains.
C16_AsStated ==
    Returned =>
        /\ cap1.opened => cap1.released
        /\ cap2.opened => cap2.released
        /\ ~files.temp_video
        /\ ~files.temp_audio
        /\ ~files.extract_temp

\* C17: whenever export_video has returned failure there is no file at the
\* output path.
C17_AsStated ==
    (Returned /\ result = "False") => files.output = "absent"

\* What a caller learns beyond success or failure: the fields of the status
\* response other than the status and the progress.
CauseFields(resp) == DOMAIN resp \ {"code", "status", "progress"}

\* C18: a failed job reports a failure status together with a cause: the
\* return value of export_video is more than a bare False and the status
\* response of the job carries a cause message.
C18_AsStated ==
    (pc = "finished" /\ job.status = "error") =>
        /\ result # "False"
        /\ CauseFields(export_status(job)) # {}

ExportResponses == { i \in 1..Len(responses) : responses[i].request.kind = "export" }

\* C19: every well-formed export request is accepted: it is answered with
\* the id of a job entry that was created for it, one entry per request.
C19_AsStated ==
    /\ \A i \in ExportResponses :
          /\ responses[i].response.code = 200
          /\ responses[i].response.job_id \in DOMAIN jobs
    /\ Len(jobs) = Cardinality(ExportResponses)

InLock(t) == threads[t].pc \in {"locked", "accessed"}

\* Every access so far was made by the thread holding jobs_lock, a thread
\* inside a `with jobs_lock:` block is the holder, and every write was made
\* by the worker of the job written.
AccessUnderLock ==
    pc = "jobs" =>
        /\ access.kind # "none" => access.holder = access.thread
        /\ \A t \in Threads : InLock(t) => jobs_lock = t
        /\ access.kind = "write" =>
              (access.thread \in Workers /\ access.job = WorkerJob(access.thread))

\* An entry changes only in a step of the worker of that job, taken while
\* that worker holds jobs_lock.
OwnEntryOnly ==
    pc = "jobs" =>
        \A j \in DOMAIN jobs :
            jobs'[j] # jobs[j] =>
                /\ access'.kind = "write" /\ access'.job = j
                /\ jobs_lock = access'.thread
                /\ WorkerJob(access'.thread) = j

\* C20: with two jobs running and two clients polling status and download,
\* every read and write of an entry's status and progress is made while
\* holding jobs_lock, and a worker writes only the entry of its own job.
C20_LockDiscipline == []AccessUnderLock /\ [][OwnEntryOnly]_vars

C20_Witness ==
    /\ pc = "jobs"
    /\ jobs[1].status = "done" /\ jobs[2].status = "error"
    /\ jobs[2].progress = Rat(10)
    /\ threads["poller1"].seen.code = 200 /\ threads["poller1"].seen.status = "running"
    /\ threads["poller2"].seen.code = 400
    /\ access.kind = "write"

\* The positions compose_frame computes for the layout lay.
PositionsOf(lay) ==
    _calculate_speaker_positions(lay.width, lay.height, lay.spk_w, lay.spk_h, lay.position)

\* C23: a speaker whose box falls outside the output raster on any side is
\* left out of the composed frame and compose_frame raises no error, for
\* the auto-centered and the fixed-position layout.
C23_AsStated ==
    pc = "compose_done" =>
        /\ (calc.frame1 # NoFrame /\ ~BoxInside(calc.lay, PositionsOf(calc.lay).s1)) =>
              (~calc.out.raised /\ calc.out.box1 = NoFrame)
        /\ (calc.frame2 # NoFrame /\ ~BoxInside(calc.lay, PositionsOf(calc.lay).s2)) =>
              (~calc.out.raised /\ calc.out.box2 = NoFrame)

\* The rectangle the claim gives to the plate of a speaker drawn at pos.
ExpectedPlate(lay, pos) ==
    LET plate == create_name_plate(lay.text_w, lay.text_h, lay.padding, lay.spk_w)
    IN  [x |-> pos.x + (lay.spk_w - plate.w) \div 2, y |-> pos.y + lay.spk_h + 5,
         w |-> plate.w, h |-> plate.h]
RectInside(lay, r) ==
    /\ 0 <= r.x /\ r.x + r.w <= lay.width
    /\ 0 <= r.y /\ r.y + r.h <= lay.height
PlateAsClaimed(lay, pos, drawn, at) ==
    /\ drawn <=> RectInside(lay, ExpectedPlate(lay, pos))
    /\ drawn => at = ExpectedPlate(lay, pos)
    /\ ~drawn => at = NoRect

\* C24: for a drawn speaker with a non-empty name the plate sits 5 pixels
\* below the box, centered under it; it is composited exactly when that
\* rectangle lies entirely inside the output frame and is omitted whole
\* otherwise.
C24_PlatePlacement ==
    pc = "compose_done" =>
        /\ (calc.out.box1 # NoFrame /\ calc.name1 # "") =>
              PlateAsClaimed(calc.lay, PositionsOf(calc.lay).s1,
                             calc.out.plate1, calc.out.plate1_at)
        /\ (calc.out.box2 # NoFrame /\ calc.name2 # "") =>
              PlateAsClaimed(calc.lay, PositionsOf(calc.lay).s2,
                             calc.out.plate2, calc.out.plate2_at)

C24_Witness ==
    /\ pc = "compose_done" /\ calc.name1 # ""
    /\ calc.out.box1 # NoFrame /\ calc.out.plate1
    /\ calc.out.box2 # NoFrame /\ ~calc.out.plate2
    /\ ExpectedPlate(calc.lay, PositionsOf(calc.lay).s2).x + 
          ExpectedPlate(calc.lay, PositionsOf(calc.lay).s2).w > calc.lay.width
    /\ ExpectedPlate(calc.lay, PositionsOf(calc.lay).s2).y +
          ExpectedPlate(calc.lay, PositionsOf(calc.lay).s2).h <= calc.lay.height

\* C25: overlay_image treats every placement that is not entirely inside the
\* background, negative x or y included, as a no-op: it raises nothing and
\* the returned raster equals the background.
OutOfBounds(c) ==
    \/ c.x < 0 \/ c.y < 0
    \/ c.x + c.ov_w > c.bg_w \/ c.y + c.ov_h > c.bg_h

C25_AsStated ==
    (pc = "overlay_done" /\ OutOfBounds(calc))
        => (~calc.out.raised /\ calc.out.painted = {})

\* C27: for every output height 1..8192 and every requested padding,
\* clamp_padding yields a padding within 0..50, so the padding is never
\* among the reasons for which building the speaker configuration fails.
C27_AsStated ==
    pc = "padding_done"
        => (/\ 0 <= calc.out.padding /\ calc.out.padding <= 50
            /\ "plate_padding" \notin calc.out.errors)

\* C21: when the frame phase succeeds, exactly max(frame_count1,
\* frame_count2) frames have been appended, one per index 0..n-1 in
\* increasing order, every step reads each source exactly once, and the loop
\* terminates (also for 0 frames).
C21_Counts ==
    pc = "mux" =>
        LET n == Max2(info1.frame_count, info2.frame_count)
        IN  /\ Len(frames_out) = n
            /\ \A i \in 1 .. n : frames_out[i].idx = i - 1
            /\ Len(cap1.reads) = n
            /\ Len(cap2.reads) = n

C21_Step ==
    (frames_out' # frames_out \/ cap1.reads' # cap1.reads \/ cap2.reads' # cap2.reads) =>
        /\ frames_out' # frames_out =>
              /\ Len(frames_out') = Len(frames_out) + 1
              /\ SubSeq(frames_out', 1, Len(frames_out)) = frames_out
              /\ frames_out'[Len(frames_out')].idx = Len(frames_out)
        /\ Len(cap1.reads') = Len(cap1.reads) + 1
        /\ Len(cap2.reads') = Len(cap2.reads) + 1
        /\ Len(cap1.reads) = Len(frames_out)
        /\ Len(cap2.reads) = Len(frames_out)

C21_Terminates == (pc \in {"writer", "frames"}) ~> (pc \in {"mux", "returned"})

C21_FramePhase == []C21_Counts /\ [][C21_Step]_vars /\ C21_Terminates

C21_Witness ==
    /\ pc = "mux"
    /\ info1.frame_count = 1
    /\ info2.frame_count = MaxFrames
    /\ Len(frames_out) = MaxFrames
    /\ Len(cap1.reads) = MaxFrames

\* C22: a frame that cannot be read at step i makes that speaker absent in
\* frame i only: the frame is still written and the job does not fail for
\* it; step i+1 reads the source again and composites what it reads.
PastedBox(lay, src, size, pos, name) == _add_speaker_to_frame(lay, src, size, pos, name)

C22_AbsentForOneStep ==
    /\ Len(cap1.reads) >= Len(frames_out)
    /\ Len(cap2.reads) >= Len(frames_out)
    /\ pc \in {"frames", "mux"} =>
          /\ Len(cap1.reads) = Len(frames_out)
          /\ Len(cap2.reads) = Len(frames_out)
    /\ \A i \in 1 .. Len(frames_out) :
          /\ frames_out[i].box1 =
                IF cap1.reads[i] = NoFrame THEN NoFrame
                ELSE PastedBox(cfg.lay, cap1.reads[i], info1,
                               PositionsOf(cfg.lay).s1, cfg.name1).box
          /\ frames_out[i].box2 =
                IF cap2.reads[i] = NoFrame THEN NoFrame
                ELSE PastedBox(cfg.lay, cap2.reads[i], info2,
                               PositionsOf(cfg.lay).s2, cfg.name2).box
    /\ pc = "returned" =>
          LET k == Len(cap1.reads)
          IN  \/ /\ cap1.reads[k] # NoFrame
                 /\ PastedBox(cfg.lay, cap1.reads[k], info1,
                              PositionsOf(cfg.lay).s1, cfg.name1).raised
              \/ /\ cap2.reads[k] # NoFrame
                 /\ PastedBox(cfg.lay, cap2.reads[k], info2,
                              PositionsOf(cfg.lay).s2, cfg.name2).raised

C22_Witness ==
    \E i \in 1 .. MaxFrames - 1 :
        /\ i + 1 <= Len(frames_out)
        /\ cap1.reads[i] = NoFrame
        /\ frames_out[i].box1 = NoFrame
        /\ frames_out[i].box2 # NoFrame
        /\ cap1.reads[i + 1] # NoFrame
        /\ frames_out[i + 1].box1 = cap1.reads[i + 1]

\* C26: on a successful job the checkpoints come in this order: 2 at the
\* start, 10 after the audio extraction and before the first frame, one
\* value in [10, 90] per frame during the frame phase, 92 after the last
\* frame and before the first encoder invocation, and 100 last; no frame
\* value follows 92.
InFrameRange(p) == RLeq(Rat(10), p) /\ RLeq(p, Rat(90))

C26_CheckpointOrder ==
    LET n == Len(progress_log)
    IN  /\ n <= max_frames + 4
        /\ n >= 1 => REq(progress_log[1], Rat(2))
        /\ n >= 2 => REq(progress_log[2], Rat(10))
        /\ \A i \in 3 .. n :
              IF i <= max_frames + 2 THEN InFrameRange(progress_log[i])
              ELSE IF i = max_frames + 3 THEN REq(progress_log[i], Rat(92))
              ELSE REq(progress_log[i], Rat(100))
        /\ n >= 2 => pc \notin {"construct", "create_job", "start", "background",
                              "probe", "audio"}
        /\ n < 2 => frames_out = << >>
        /\ pc = "frames" => n = Len(frames_out) + 2
        /\ n >= max_frames + 3 => Len(frames_out) = max_frames
        /\ n < max_frames + 3 => invocations = << >>
        /\ (Returned /\ result = "True") =>
              /\ n = max_frames + 4
              /\ REq(progress_log[n], Rat(100))

C26_Witness ==
    /\ Returned /\ result = "True"
    /\ max_frames = MaxFrames
    /\ Len(invocations) = 2
    /\ REq(progress_log[3], FrameProgress(1, MaxFrames))
    /\ REq(progress_log[MaxFrames + 3], Rat(92))

WorkerOf(j) == CHOOSE w \in Workers : WorkerJob(w) = j

\* The status of every entry is running, done or error; it is running until
\* the worker's final update, done exactly when export_video returned True
\* and error exactly when it returned False or raised, and a worker that is
\* over has left its entry done or error.
C28_StatusValues ==
    pc = "jobs" =>
        \A j \in DOMAIN jobs :
            LET ret == threads[WorkerOf(j)].ret
            IN  /\ jobs[j].status \in {"running", "done", "error"}
                /\ (jobs[j].status = "running") = (ret = "pending")
                /\ (jobs[j].status = "done") = (ret = "True")
                /\ (jobs[j].status = "error") = (ret \in {"False", "raised"})
                /\ threads[WorkerOf(j)].step = Finished(JobFrames[j]) =>
                      jobs[j].status # "running"

\* No step changes the status or the progress of an entry that is done or
\* error.
C28_Absorbing ==
    pc = "jobs" =>
        \A j \in DOMAIN jobs : jobs[j].status # "running" => jobs'[j] = jobs[j]

\* C28: a job's status is running, done or error; it starts running and
\* changes once, to done iff export_video returned True and to error
\* otherwise (also when the worker raises); done and error are absorbing for
\* both status and progress.
C28_StatusLifecycle == []C28_StatusValues /\ [][C28_Absorbing]_vars

C28_Witness ==
    /\ pc = "jobs"
    /\ jobs[1].status = "done" /\ threads["worker1"].ret = "True"
    /\ jobs[2].status = "error" /\ threads["worker2"].ret = "raised"
    /\ REq(jobs[2].progress, Rat(92))
    /\ threads["worker1"].step = Finished(JobFrames[1])
    /\ threads["worker2"].step = Finished(JobFrames[2])

\* The response a poller holds is the answer to its latest request of kind.
Answered(p, kind) ==
    /\ threads[p].pc \in {"accessed", "lookup", "idle"}
    /\ threads[p].kind = kind
    /\ threads[p].polls > 0

\* C30: download serves a file only for a job that is done: an unknown id
\* is answered 'not found', a running or failed job 'not ready', whatever
\* the interleaving with the worker.
C30_DownloadOnlyWhenDone ==
    pc = "jobs" =>
        \A p \in Pollers :
            Answered(p, "download") =>
                LET s == threads[p].seen
                    id == threads[p].job
                IN  /\ id \notin DOMAIN jobs => (s.code = 404 /\ s.error = "not found")
                    /\ s.status \in {"running", "error"} =>
                          (s.code = 400 /\ s.error = "not ready")
                    /\ s.code \in {0, 200} =>
                          /\ id \in DOMAIN jobs
                          /\ s.status = "done"
                          /\ jobs[id].status = "done"
                          /\ threads[WorkerOf(id)].ret = "True"

C30_Witness ==
    /\ pc = "jobs"
    /\ Answered("poller1", "download") /\ threads["poller1"].job = 1
    /\ threads["poller1"].seen.code = 200
    /\ Answered("poller2", "download") /\ threads["poller2"].job = 2
    /\ threads["poller2"].seen.code = 400 /\ threads["poller2"].seen.status = "error"
    /\ threads["poller2"].polls = 2

====
